---- MODULE Spec2Model ----
(***************************************************************************)
(* Orchestration engine of android-swarm: the task lifecycle driven by     *)
(* Orchestrator.executeTask, the per-step Coder/Critic retry loop, budget  *)
(* checks, the two circuit breakers, the INT/TERM handler, the heartbeat   *)
(* timer, the PID file, and the state store's tasks / api_calls / steps    *)
(* tables.                                                                 *)
(*                                                                         *)
(* One orchestrator process runs one Task.  The driver is an async         *)
(* function: between two awaits it runs without interruption, so each      *)
(* action below is the code from one await to the next.  The signal        *)
(* handler and the heartbeat timer run only while the driver is suspended  *)
(* in an LLM call.  Other processes interleave at file-system operations.  *)
(***************************************************************************)
EXTENDS Integers, Sequences, FiniteSets, TLC

(* ---- program constants (src/src/constants.ts) ---- *)
MAX_API_CALLS             == 80
MAX_TOTAL_TOKENS          == 200000
MAX_STEP_RETRIES          == 3
MAX_PLAN_STEPS            == 25
CONSECUTIVE_FAILURE_LIMIT == 3
API_ERROR_RATE_WINDOW_MS  == 60000
API_ERROR_RATE_LIMIT      == 5
MAX_RATE_LIMIT_RETRIES    == 3
SERVER_ERROR_DELAY_MS     == 5000
RATE_LIMIT_DELAYS_MS      == <<1000, 2000, 4000>>
TIMEOUT_MS                == 120000
REQUESTS_PER_MINUTE       == 10
BURST                     == 3
MAX_FILE_SIZE_BYTES       == 51200

(* ---- bounds of the model ---- *)
Resolution    == 2    \* the bucket content is counted in 1/(Resolution * intervalMs) tokens
NumProcs      == 2    \* orchestrator processes sharing one state root
MaxPlanLen    == 1    \* longest plan the Planner returns under Spec
MaxSignals    == 1    \* INT/TERM deliveries per process
MaxHeartbeats == 2    \* heartbeat writes per process (the first is immediate)
MaxRuns       == 2    \* executeTask calls made on one Orchestrator instance
CallsPlanLen  == 14   \* plan length under SpecCalls
ReviewPlanLen == 3    \* longest plan under SpecReview
MaxPathLen    == 3    \* characters of a file_path under SpecPaths
DepPlanLen    == 2    \* plan length under SpecDeps
FilesPlanLen  == 2    \* plan length under SpecFiles
IssuesPlanLen == 2    \* plan length under SpecIssues
MaxChats      == 1    \* chat calls under SpecChat
MaxAcquires   == 4    \* acquire calls under SpecLimiter
MaxReviews    == 3    \* reviewFile calls under SpecCritic
MaxWrites     == 2    \* writeFile calls under SpecWrite
MaxExits      == 2    \* runs of main() under SpecExit
BreakerChats  == 4    \* chat calls under SpecBreaker

Procs == 1..NumProcs

(* contents of the PID file; PID 0 stands for a process that no longer exists, *)
(* PID -1 for a number beyond the 32-bit range, which process.kill rejects     *)
NoPidFile == [exists |-> FALSE, parses |-> FALSE, pid |-> 0]
PidFileOf(pid) == [exists |-> TRUE, parses |-> TRUE, pid |-> pid]
GarbledPidFile == [exists |-> TRUE, parses |-> FALSE, pid |-> 0]
StalePidFile == PidFileOf(0)
HugePidFile == PidFileOf(-1)

(* token usage an LLM response may report: nothing, or half the budget *)
TokChoices == {0, MAX_TOTAL_TOKENS \div 2}

VARIABLES
  orch,          \* orch[p]: fields of process p's Orchestrator, and the driver's position
  tasks,         \* tasks[p]: the row of p's Task in table tasks
  api_calls,     \* api_calls[p]: rows of table api_calls of p's Task
  steps,         \* steps[p]: rows of table steps of p's Task, in insertion order
  files,         \* files[p]: step numbers whose file is in p's workspace
  pidFile,       \* PATHS.PID_FILE: absent, or present with a PID or unparseable text
  heartbeatFile  \* heartbeatFile[p]: number of heartbeat writes made for p's Task

vars == <<orch, tasks, api_calls, steps, files, pidFile, heartbeatFile>>

(* ---- errors ---- *)
NoError == [kind |-> "none", msg |-> ""]
Err(kind, msg) == [kind |-> kind, msg |-> msg]

(* The error classes: every class of the errors module extends SwarmError,      *)
(* SwarmError and the platform's errors extend Error; a thrown value that is   *)
(* not an object of any class (a string, undefined) has no class at all.       *)
VerificationErrorSuper == "SwarmError"

Superclass(class) ==
  IF class \in {"ValidationError", "APIError", "TimeoutError",
                "LimitExceededError", "CircuitBreakerError"} THEN "SwarmError"
  ELSE IF class = "VerificationError" THEN VerificationErrorSuper
  ELSE IF class \in {"SwarmError", "TypeError", "SqliteError"} THEN "Error"
  ELSE "none"

RECURSIVE instanceof(_, _)
instanceof(class, C) ==
  IF class = "none" THEN FALSE
  ELSE IF class = C THEN TRUE
  ELSE instanceof(Superclass(class), C)

(* enum ExitCode *)
ExitCode == [Success |-> 0, ValidationError |-> 1, ApiOrTimeoutError |-> 2,
             VerificationFailure |-> 3, UnexpectedError |-> 4]

getExitCodeForError_NoLimitBranch(error) ==
  IF instanceof(error.kind, "ValidationError") THEN ExitCode.ValidationError
  ELSE IF instanceof(error.kind, "VerificationError") THEN ExitCode.VerificationFailure
  ELSE IF instanceof(error.kind, "APIError") \/ instanceof(error.kind, "TimeoutError")
       THEN ExitCode.ApiOrTimeoutError
  ELSE IF instanceof(error.kind, "CircuitBreakerError") THEN ExitCode.ApiOrTimeoutError
  ELSE IF instanceof(error.kind, "SwarmError") THEN ExitCode.UnexpectedError
  ELSE ExitCode.UnexpectedError

getExitCodeForError(error) ==
  IF instanceof(error.kind, "ValidationError") THEN ExitCode.ValidationError
  ELSE IF instanceof(error.kind, "VerificationError") THEN ExitCode.VerificationFailure
  ELSE IF instanceof(error.kind, "APIError") \/ instanceof(error.kind, "TimeoutError")
       THEN ExitCode.ApiOrTimeoutError
  ELSE IF instanceof(error.kind, "LimitExceededError") THEN ExitCode.ApiOrTimeoutError
  ELSE IF instanceof(error.kind, "CircuitBreakerError") THEN ExitCode.ApiOrTimeoutError
  ELSE IF instanceof(error.kind, "SwarmError") THEN ExitCode.UnexpectedError
  ELSE ExitCode.UnexpectedError

TerminalStates == {"COMPLETED", "COMPLETED_WITH_WARNINGS", "FAILED"}

(* The driver is suspended in an LLM call at these positions. *)
AwaitPcs == {"planner", "coder", "critic", "verifier"}

(* ---- the part of the world process p's code reads and writes ---- *)
World(p) ==
  [o |-> orch[p], task |-> tasks[p], calls |-> api_calls[p],
   steps |-> steps[p], files |-> files[p], pid |-> pidFile]

Commit(p, w) ==
  /\ orch' = [orch EXCEPT ![p] = w.o]
  /\ tasks' = [tasks EXCEPT ![p] = w.task]
  /\ api_calls' = [api_calls EXCEPT ![p] = w.calls]
  /\ steps' = [steps EXCEPT ![p] = w.steps]
  /\ files' = [files EXCEPT ![p] = w.files]
  /\ pidFile' = w.pid

(* ---- StateManager ---- *)
NoRow ==
  [state |-> "none", api_call_count |-> 0, total_tokens |-> 0,
   plan |-> 0, end_time |-> "null", error_message |-> ""]

createTask(row) == [row EXCEPT !.state = "PLANNING"]

updateTaskState(row, state, errorMessage) ==
  [row EXCEPT !.state = state,
              !.end_time = IF state \in {"COMPLETED", "FAILED"} THEN "set" ELSE @,
              !.error_message = IF errorMessage # "" THEN errorMessage ELSE @]

(* ---- paths: strings are sequences of characters ---- *)
NameChars == {"a", "b", "t", "m", "p", "."}   \* characters of the class [a-zA-Z0-9_.-]
TmpSuffix == <<".", "t", "m", "p">>
TaskDir == <<"/", "w", "/", "T">>      \* join(PATHS.WORKSPACE_ROOT, taskId), already normal

RECURSIVE Split(_)
(* path.split('/') *)
Split(path) ==
  IF \A i \in DOMAIN path : path[i] # "/" THEN <<path>>
  ELSE LET i == CHOOSE j \in DOMAIN path :
                  path[j] = "/" /\ \A h \in 1..(j - 1) : path[h] # "/"
       IN <<SubSeq(path, 1, i - 1)>> \o Split(SubSeq(path, i + 1, Len(path)))

Includes(path, c) == \E i \in DOMAIN path : path[i] = c
IncludesDotDot(path) == \E i \in 1..(Len(path) - 1) : path[i] = "." /\ path[i + 1] = "."

validateFilePath(path) ==
  /\ Len(path) > 0
  /\ Len(path) <= 512
  /\ path[1] # "/"
  /\ ~IncludesDotDot(path)
  /\ ~Includes(path, "\n") /\ ~Includes(path, "\r")
  /\ \A i \in DOMAIN Split(path) :
       LET component == Split(path)[i]
       IN \/ component = <<>>
          \/ component = <<".">>
          \/ /\ \A j \in DOMAIN component : component[j] \in NameChars
             /\ component[1] # "."

RECURSIVE Join(_)
Join(components) ==
  IF components = <<>> THEN <<>>
  ELSE <<"/">> \o Head(components) \o Join(Tail(components))

(* path.resolve(base, rel) for a normal absolute base and a relative path with *)
(* no '..' component: empty and '.' components vanish                          *)
resolve(base, rel) ==
  base \o Join(SelectSeq(Split(rel), LAMBDA c : c # <<>> /\ c # <<".">>))

StartsWith(path, prefix) ==
  Len(path) >= Len(prefix) /\ SubSeq(path, 1, Len(prefix)) = prefix

(* sanitizeFilePath: the resolved path, or the error *)
sanitizeFilePath(basePath, filePath) ==
  IF ~validateFilePath(filePath) THEN [ok |-> FALSE, path |-> <<>>]
  ELSE LET normalizedPath == resolve(basePath, filePath)
       IN IF ~StartsWith(normalizedPath, basePath \o <<"/">>) /\ normalizedPath # basePath
          THEN [ok |-> FALSE, path |-> <<>>]
          ELSE [ok |-> TRUE, path |-> normalizedPath]

(* ---- the file system under WORKSPACE_ROOT: the regular files and the ---- *)
(* directories that exist, by absolute path                               *)
WorkspaceRoot == <<"/", "w">>
NoDisk == [files |-> {}, dirs |-> {<<>>, WorkspaceRoot}]

(* path.dirname of an absolute path *)
dirname(path) ==
  LET i == CHOOSE j \in DOMAIN path :
             path[j] = "/" /\ \A h \in (j + 1)..Len(path) : path[h] # "/"
  IN SubSeq(path, 1, i - 1)

(* the directory dir and every directory above it *)
Ancestors(dir) ==
  {SubSeq(dir, 1, i) : i \in {j \in 0..Len(dir) : j = Len(dir) \/ dir[j + 1] = "/"}}

existsSync(disk, path) == path \in disk.files \/ path \in disk.dirs

(* the operations of writeFile that may throw for a reason of their own, and *)
(* whether the unlink of the cleanup works                                   *)
FsFaults ==
  [at : {"none", "mkdir", "write", "partial", "chmod", "unlink", "rename"},
   cleanup : BOOLEAN]
NoFault == [at |-> "none", cleanup |-> TRUE]

WriteResult(disk, error, touched) == [disk |-> disk, error |-> error, touched |-> touched]

(* a catch block that rethrows without removing the temporary file *)
writeFile_NoCleanup(disk, tmpPath, fault, error, touched) ==
  WriteResult(disk, error, touched)

(* the catch block of writeFile: unlink the temporary file if it exists, *)
(* ignoring a failure, and rethrow                                       *)
writeFile_Cleanup(disk, tmpPath, fault, error, touched) ==
  WriteResult(IF tmpPath \in disk.files /\ fault.cleanup
              THEN [disk EXCEPT !.files = @ \ {tmpPath}] ELSE disk,
              error, touched)

(* a size check that rejects the limit itself *)
ExceedsLimit_AtLimit(contentSize) == contentSize >= MAX_FILE_SIZE_BYTES

(* contentSize > LIMITS.MAX_FILE_SIZE_BYTES *)
ExceedsLimit(contentSize) == contentSize > MAX_FILE_SIZE_BYTES

(* StateManager.writeFile: the disk afterwards, the error thrown and the paths *)
(* it created, changed or removed                                              *)
StateManager_writeFile(disk, filePath, contentSize, fault) ==
  LET target == sanitizeFilePath(TaskDir, filePath)
      fullPath == target.path
      dir == dirname(fullPath)
      tmpPath == fullPath \o TmpSuffix
      io == Err("Error", "EIO")
      made == [disk EXCEPT !.dirs = @ \cup Ancestors(dir)]
      written == [made EXCEPT !.files = @ \cup {tmpPath}]
      unlinked == [written EXCEPT !.files = @ \ {fullPath}]
      renamed == [unlinked EXCEPT !.files = (@ \ {tmpPath}) \cup {fullPath}]
  IN IF ~target.ok
     THEN WriteResult(disk, Err("ValidationError", "Invalid file path"), {})
     ELSE IF ExceedsLimit(contentSize)
     THEN WriteResult(disk, Err("ValidationError", "File size exceeds limit"), {})
     ELSE IF ~existsSync(disk, dir)
             /\ (fault.at = "mkdir" \/ Ancestors(dir) \cap disk.files # {})
     THEN WriteResult(disk, Err("Error", "ENOTDIR"), {})
     ELSE IF dir \in disk.files
     THEN writeFile_Cleanup(disk, tmpPath, fault, Err("Error", "ENOTDIR"), {})
     ELSE IF tmpPath \in made.dirs
     THEN writeFile_Cleanup(made, tmpPath, fault, Err("Error", "EISDIR"), {})
     ELSE IF fault.at = "write"
     THEN writeFile_Cleanup(made, tmpPath, fault, io, {})
     ELSE IF fault.at \in {"partial", "chmod"}
     THEN writeFile_Cleanup(written, tmpPath, fault, io, {tmpPath})
     ELSE IF fullPath \in written.dirs
     THEN writeFile_Cleanup(written, tmpPath, fault, Err("Error", "EISDIR"), {tmpPath})
     ELSE IF fullPath \in written.files /\ fault.at = "unlink"
     THEN writeFile_Cleanup(written, tmpPath, fault, io, {tmpPath})
     ELSE IF fault.at = "rename"
     THEN writeFile_Cleanup(unlinked, tmpPath, fault, io, {tmpPath, fullPath})
     ELSE WriteResult(renamed, NoError, {tmpPath, fullPath})

(* The content of the workspace's files after a writeFile call that was given *)
(* the coder_output named output: writeFileSync puts it in the temporary file *)
(* and renameSync moves that file to the destination; a file the call removed *)
(* or left half-written holds no coder_output any more.                       *)
contentAfter(content, wf, filePath, output) ==
  LET kept == {c \in content : c.path \in wf.disk.files /\ c.path \notin wf.touched}
  IN IF wf.error = NoError
     THEN kept \cup {[path |-> sanitizeFilePath(TaskDir, filePath).path, output |-> output]}
     ELSE kept

EndsWith(name, suffix) ==
  Len(name) >= Len(suffix)
  /\ SubSeq(name, Len(name) - Len(suffix) + 1, Len(name)) = suffix

(* readdirSync(dir): the files and directories directly under dir *)
readdirSync(disk, dir) ==
  {q \in disk.files \cup disk.dirs :
     /\ Len(q) > Len(dir) + 1
     /\ StartsWith(q, dir \o <<"/">>)
     /\ \A i \in (Len(dir) + 2)..Len(q) : q[i] # "/"}

RECURSIVE walk(_, _)
(* the walk of getAllFiles: entries whose name starts with '.' or ends with *)
(* '.tmp' are skipped, directories are entered, files are collected         *)
walk(disk, dir) ==
  LET entries == {q \in readdirSync(disk, dir) :
                    LET name == SubSeq(q, Len(dir) + 2, Len(q))
                    IN name[1] # "." /\ ~EndsWith(name, TmpSuffix)}
  IN (entries \cap disk.files)
     \cup UNION {walk(disk, sub) : sub \in entries \cap disk.dirs}

(* StateManager.getAllFiles: the paths relative to the Task's directory *)
getAllFiles(disk) ==
  IF ~existsSync(disk, TaskDir) THEN {}
  ELSE {SubSeq(q, Len(TaskDir) + 2, Len(q)) : q \in walk(disk, TaskDir)}

(* validatePlan: an array of 1..MAX_PLAN_STEPS well-formed steps, each with a *)
(* safe file_path and with dependencies that are step numbers of the plan     *)
validatePlan(resp) ==
  /\ resp.wellFormed /\ resp.len >= 1 /\ resp.len <= MAX_PLAN_STEPS
  /\ \A i \in 1..resp.len : validateFilePath(resp.paths[i])
  /\ \A i \in 1..resp.len : resp.deps[i] \subseteq 1..resp.len

storePlan(row, planLen) == [row EXCEPT !.plan = planLen]

recordStep(rows, stepNumber, attempt, decision) ==
  Append(rows, [step_number |-> stepNumber, attempt |-> attempt,
                critic_decision |-> decision])

writeFile(fs, stepNumber) == fs \cup {stepNumber}

(* Two statements, each committed on its own: INSERT INTO api_calls, then   *)
(* UPDATE tasks.  fail names the statement that throws, if any.             *)
StateManager_recordAPICall(w, agent, tok, fail) ==
  IF fail = "insert" THEN w
  ELSE LET w1 == [w EXCEPT !.calls.agents = Append(@, agent),
                           !.calls.tokens = @ + tok]
       IN IF fail = "update" THEN w1
          ELSE [w1 EXCEPT !.task.api_call_count = @ + 1,
                          !.task.total_tokens = @ + tok]

(* ---- RateLimiter (token bucket of the LLM client) ---- *)
Min(a, b) == IF a <= b THEN a ELSE b
Max(a, b) == IF a >= b THEN a ELSE b

(* The bucket content is a double in the code.  Here it is an integer number of *)
(* units, Resolution * intervalMs units to the token, so that one millisecond   *)
(* of refill is tokensPerInterval * Resolution units, computed exactly; the     *)
(* rounding of the double sum in refill is the argument round, in units.  A sum *)
(* onto an empty bucket has one operand and is taken as exact.                  *)
UnitsPerToken(rl) == rl.intervalMs * Resolution

NewRateLimiter(options, now) ==
  [tokensPerInterval |-> options.tokensPerInterval, intervalMs |-> options.intervalMs,
   burst |-> options.burst,
   tokens |-> options.burst * options.intervalMs * Resolution,
   lastRefill |-> now,
   sleeps |-> <<>>,          \* history: the waits of the latest acquire
   returned |-> <<>>,        \* history: the times at which acquire calls returned
   acquires |-> 0]           \* history: acquire calls made

(* a refill that does not cap the bucket *)
refill_Uncapped(rl, current, round) ==
  LET elapsed == current - rl.lastRefill
  IN IF elapsed <= 0 THEN rl
     ELSE [rl EXCEPT !.tokens = @ + elapsed * rl.tokensPerInterval * Resolution
                                  + (IF rl.tokens = 0 THEN 0 ELSE round),
                     !.lastRefill = current]

refill(rl, current, round) ==
  LET elapsed == current - rl.lastRefill
  IN IF elapsed <= 0 THEN rl
     ELSE [rl EXCEPT !.tokens = Min(rl.burst * UnitsPerToken(rl),
                                    @ + elapsed * rl.tokensPerInterval * Resolution
                                      + (IF rl.tokens = 0 THEN 0 ELSE round)),
                     !.lastRefill = current]

(* Math.ceil(missing / ratePerMs) *)
msUntilNextToken(rl) ==
  IF rl.tokens >= UnitsPerToken(rl) THEN 0
  ELSE LET missing == UnitsPerToken(rl) - rl.tokens
           perMs == rl.tokensPerInterval * Resolution
       IN (missing + perMs - 1) \div perMs

RECURSIVE acquireLoop(_, _, _)

(* the loop of acquire on client k: rounds are the roundings of the successive *)
(* refills, over is the time a sleep lasts beyond what was asked               *)
acquireLoop(k, rounds, over) ==
  LET round == IF rounds = <<>> THEN 0 ELSE Head(rounds)
      rest == IF rounds = <<>> THEN <<>> ELSE Tail(rounds)
      rl == refill(k.rateLimiter, k.now, round)
  IN IF rl.tokens >= UnitsPerToken(rl)
     THEN [k EXCEPT !.rateLimiter = [rl EXCEPT !.tokens = @ - UnitsPerToken(rl),
                                               !.returned = Append(@, k.now)]]
     ELSE LET msToWait == msUntilNextToken(rl)
          IN acquireLoop([k EXCEPT !.rateLimiter = [rl EXCEPT !.sleeps =
                                     Append(@, [ms |-> msToWait,
                                                missing |-> UnitsPerToken(rl) - rl.tokens])],
                                   !.now = @ + msToWait + over],
                         rest, over)

acquire(k, rounds, over) ==
  acquireLoop([k EXCEPT !.rateLimiter.sleeps = <<>>, !.rateLimiter.acquires = @ + 1],
              rounds, over)

(* RATE_LIMITER of constants.ts with no environment override *)
DefaultOptions ==
  [tokensPerInterval |-> REQUESTS_PER_MINUTE, intervalMs |-> 60000, burst |-> BURST]

(* the limiter of rate-limiter.test.ts *)
TestOptions == [tokensPerInterval |-> 1, intervalMs |-> 1000, burst |-> 1]

(* ---- KimiClient ---- *)
NoClientError == [kind |-> "none", statusCode |-> 0, transient |-> FALSE]
APIError(statusCode, transient) ==
  [kind |-> "APIError", statusCode |-> statusCode, transient |-> transient]
TimeoutError == [kind |-> "TimeoutError", statusCode |-> 0, transient |-> TRUE]
ClientBreakerError == [kind |-> "CircuitBreakerError", statusCode |-> 0, transient |-> FALSE]

isTransientError(error) == error.transient

classifyHTTPError(statusCode) ==
  [transient |-> statusCode = 429 \/ (statusCode >= 500 /\ statusCode < 600)]

NewKimiClient(options) ==
  [now |-> 0,                      \* Date.now() of the process
   rateLimiter |-> NewRateLimiter(options, 0),
   apiErrorTimestamps |-> <<>>,
   deadline |-> 0,                 \* when the AbortController of the current chat fires
   errorLog |-> <<>>,              \* history: every timestamp recordAPIError pushed
   attempts |-> <<>>,              \* history: the attempts of the latest chat
   result |-> NoClientError,       \* what the latest makeRequest / chat raised
   http |-> <<>>,                  \* history: every HTTP request issued, with its agent
   agent |-> "none",               \* the agent of the latest chat
   refused |-> 0,                  \* history: requests the error-rate breaker refused
   chats |-> 0]                    \* history: chat calls made

FilterNewer(ts, windowStart) == SelectSeq(ts, LAMBDA t : t > windowStart)

recordAPIError(k) ==
  [k EXCEPT !.apiErrorTimestamps = Append(@, k.now), !.errorLog = Append(@, k.now)]

(* a filter that keeps every timestamp *)
checkAPIErrorRate_NoPruning(k) ==
  IF Len(k.apiErrorTimestamps) >= API_ERROR_RATE_LIMIT
  THEN [k EXCEPT !.result = ClientBreakerError]
  ELSE [k EXCEPT !.result = NoClientError]

checkAPIErrorRate(k) ==
  LET kept == FilterNewer(k.apiErrorTimestamps, k.now - API_ERROR_RATE_WINDOW_MS)
      k1 == [k EXCEPT !.apiErrorTimestamps = kept]
  IN IF Len(kept) >= API_ERROR_RATE_LIMIT
     THEN [k1 EXCEPT !.result = ClientBreakerError]
     ELSE [k1 EXCEPT !.result = NoClientError]

(* fetch settles with outcome out, or the AbortController fires first *)
Settle(k, out) ==
  IF out.kind = "hang" \/ k.now + out.latency >= k.deadline
  THEN [kind |-> "abort", status |-> 0, at |-> Max(k.now, k.deadline)]
  ELSE [kind |-> out.kind, status |-> out.status, at |-> k.now + out.latency]

makeRequest(k, out) ==
  LET k0 == checkAPIErrorRate(k)
      s  == Settle(k0, out)
      k1 == [k0 EXCEPT !.now = s.at,
                       !.attempts = Append(@, [at |-> k0.now, issued |-> TRUE,
                                               kind |-> s.kind, status |-> s.status,
                                               errorsBefore |-> Len(k0.errorLog)]),
                       !.http = Append(@, [agent |-> k0.agent, kind |-> s.kind,
                                           status |-> s.status])]
  IN IF k0.result # NoClientError
     THEN [k0 EXCEPT !.refused = @ + 1,
                     !.attempts = Append(@, [at |-> k0.now, issued |-> FALSE,
                                             kind |-> "none", status |-> 0,
                                             errorsBefore |-> Len(k0.errorLog)])]
     ELSE IF s.kind = "abort" THEN [recordAPIError(k1) EXCEPT !.result = TimeoutError]
     ELSE IF s.kind = "network" THEN [recordAPIError(k1) EXCEPT !.result = APIError(0, TRUE)]
     ELSE IF s.status >= 200 /\ s.status < 300 THEN k1
     ELSE LET classification == classifyHTTPError(s.status)
              k2 == IF ~classification.transient \/ s.status >= 500
                    THEN recordAPIError(k1) ELSE k1
          IN [k2 EXCEPT !.result = APIError(s.status, classification.transient)]

(* Math.max(100, delayMs + jitter), jitter a percentage of delayMs in -25..25 *)
addJitter(delayMs, jitter) == Max(100, delayMs + (jitter * delayMs) \div 100)

sleep(k, ms) == [k EXCEPT !.now = @ + ms]

RECURSIVE makeRequestWithRetry_Every5xx(_, _, _, _)

(* a retry loop that retries a server error on every iteration *)
makeRequestWithRetry_Every5xx(k, outs, jitter, attempt) ==
  IF attempt >= MAX_RATE_LIMIT_RETRIES THEN k
  ELSE LET r == makeRequest(k, outs[attempt + 1])
           err == r.result
       IN IF err.kind = "APIError" /\ err.transient
             /\ attempt < MAX_RATE_LIMIT_RETRIES - 1
          THEN makeRequestWithRetry_Every5xx(
                 sleep(r, addJitter(SERVER_ERROR_DELAY_MS, jitter)), outs, jitter, attempt + 1)
          ELSE r

RECURSIVE makeRequestWithRetry(_, _, _, _)

(* the retry loop from iteration attempt on; the iteration's outcome is outs[attempt + 1] *)
makeRequestWithRetry(k, outs, jitter, attempt) ==
  IF attempt >= MAX_RATE_LIMIT_RETRIES THEN k
  ELSE LET r == makeRequest(k, outs[attempt + 1])
           err == r.result
           serverDelay == addJitter(SERVER_ERROR_DELAY_MS, jitter)
       IN IF err = NoClientError THEN r
          ELSE IF err.kind \in {"APIError", "TimeoutError"}
          THEN IF ~err.transient THEN r
               ELSE IF err.kind = "APIError" /\ err.statusCode = 429
                       /\ attempt < MAX_RATE_LIMIT_RETRIES - 1
               THEN makeRequestWithRetry(
                      sleep(r, addJitter(RATE_LIMIT_DELAYS_MS[attempt + 1], jitter)),
                      outs, jitter, attempt + 1)
               ELSE IF err.kind = "APIError" /\ err.statusCode >= 500
                       /\ err.statusCode < 600 /\ attempt = 0
               THEN makeRequestWithRetry(sleep(r, serverDelay), outs, jitter, attempt + 1)
               ELSE IF err.kind = "TimeoutError" /\ attempt = 0
               THEN makeRequestWithRetry(sleep(r, serverDelay), outs, jitter, attempt + 1)
               ELSE r
          ELSE r    \* CircuitBreakerError: not transient, rethrown by the legacy branch

(* chat: arm the timeout, acquire a rate-limiter token, then the retry loop *)
chat(k, agent, in) ==
  LET k0 == [k EXCEPT !.deadline = k.now + TIMEOUT_MS, !.attempts = <<>>,
                      !.result = NoClientError, !.agent = agent, !.chats = @ + 1]
  IN makeRequestWithRetry(acquire(k0, in.rounds, 0), in.outs, in.jitter, 0)

(* ---- CriticAgent (src/src/agents/critic.ts) ---- *)

(* what the endpoint's reply holds when the request succeeded: no choices at all, *)
(* a content that is not JSON, the JSON value null, or a JSON object              *)
ReplyShapes == {"absent", "invalid", "null", "object"}
NoReply == [json |-> "absent", decision |-> "missing",
            issues |-> [isArray |-> FALSE, items |-> <<>>], usage |-> 0]
NoReview == [made |-> FALSE, failed |-> FALSE, reply |-> NoReply,
             out |-> [decision |-> "none", issues |-> <<>>, usage |-> 0]]

CriticOutput(decision, issues, usage) ==
  [decision |-> decision, issues |-> issues, usage |-> usage]

(* reviewFile on client k: the client after the call and the value returned *)
reviewFile(k, in, reply) ==
  LET r == chat(k, "critic", in)
      failOpen == CriticOutput("ACCEPT", <<>>, 0)       \* the outer catch
  IN [kimi |-> r,
      out |-> IF r.result # NoClientError THEN failOpen
              ELSE IF reply.json = "absent" THEN failOpen   \* TypeError on choices[0]
              ELSE IF reply.json = "invalid" THEN CriticOutput("ACCEPT", <<>>, reply.usage)
              ELSE IF reply.json = "null" THEN failOpen     \* TypeError on result.decision
              ELSE IF reply.decision \notin {"ACCEPT", "REJECT"}
                   THEN CriticOutput("ACCEPT", <<>>, reply.usage)
              ELSE CriticOutput(reply.decision,
                                IF reply.issues.isArray THEN reply.issues.items ELSE <<>>,
                                reply.usage)]

(* ---- Orchestrator helpers ---- *)
NoWrite == [n |-> 0, filePath |-> <<>>, contentSize |-> 0, fault |-> NoFault,
            before |-> NoDisk, error |-> NoError]
NoReport == [made |-> FALSE, obtained |-> FALSE, quality_score |-> 0]

recordAPICall(w, agent, tok, fail) ==
  IF ~w.o.active THEN w ELSE StateManager_recordAPICall(w, agent, tok, fail)

checkLimits(w, late) ==
  IF ~w.o.active THEN NoError
  ELSE IF late THEN Err("LimitExceededError", "Wall-clock timeout")
  ELSE IF w.task.api_call_count >= MAX_API_CALLS
       THEN Err("LimitExceededError", "API call limit exceeded")
  ELSE IF w.task.total_tokens >= MAX_TOTAL_TOKENS
       THEN Err("LimitExceededError", "Token limit exceeded")
  ELSE NoError

checkCircuitBreaker(o) ==
  IF o.consecutiveFailures >= CONSECUTIVE_FAILURE_LIMIT
  THEN Err("CircuitBreakerError", "Circuit breaker activated")
  ELSE NoError

checkFeedbackLoop(o) ==
  IF o.consecutiveCriticRejections >= CONSECUTIVE_FAILURE_LIMIT * 2
  THEN Err("CircuitBreakerError",
           "Feedback loop detected. Coder unable to satisfy Critic requirements.")
  ELSE NoError

(* a check that never looks for the file *)
checkEmergencyStop_Skipped(stopFile) == NoError

checkEmergencyStop(stopFile) ==
  IF stopFile THEN Err("Error", "Emergency stop") ELSE NoError

stopHeartbeat(o) == [o EXCEPT !.heartbeatInterval = FALSE]

removePIDFile(file) == IF file.exists THEN NoPidFile ELSE file

(* a finally block that forgets the heartbeat timer *)
Finally_KeepsTimer(w, outcome, err) ==
  [w EXCEPT !.o = [@ EXCEPT !.active = FALSE, !.pc = "done",
                            !.outcome = outcome, !.error = err],
            !.pid = removePIDFile(@)]

(* the finally block of executeTask, then the return or the rethrow *)
Finally(w, outcome, err) ==
  [w EXCEPT !.o = [stopHeartbeat(@) EXCEPT !.active = FALSE, !.pc = "done",
                                           !.outcome = outcome, !.error = err],
            !.pid = removePIDFile(@)]

(* the catch block of executeTask *)
Catch(w, err) ==
  Finally([w EXCEPT !.task = updateTaskState(@, "FAILED", err.msg)], "threw", err)

(* the driver issues an LLM call through an agent and suspends *)
InvokeAgent(w, agent) ==
  [w EXCEPT !.o.pc = agent,
            !.o.invoked = Append(@, [agent |-> agent,
                                     step |-> IF agent \in {"coder", "critic"}
                                              THEN w.o.current_step_index + 1
                                              ELSE 0])]

runVerificationPhase(w) ==
  InvokeAgent([w EXCEPT !.task = updateTaskState(@, "VERIFYING", "")], "verifier")

(* what holds when an attempt starts: the clock, the stop file, the Task's row, *)
(* the count of rejections and the abort flag                                   *)
NoHead ==
  [n |-> 0, late |-> FALSE, stop |-> FALSE, api_call_count |-> 0, total_tokens |-> 0,
   rejections |-> 0, abort |-> FALSE]

AtHead(w, env) ==
  [n |-> w.o.head.n + 1, late |-> env.late, stop |-> env.stop,
   api_call_count |-> w.task.api_call_count, total_tokens |-> w.task.total_tokens,
   rejections |-> w.o.consecutiveCriticRejections, abort |-> w.o.abortRequested]

(* stepState.critic_issues: null, or the issues array of a Critic response *)
Null == [given |-> FALSE, items |-> <<>>]
Given(issues) == [given |-> TRUE, items |-> issues]

(* coderAgent.generateFile(step, task_spec, completed_files,       *)
(*                          stepState.critic_issues || undefined) *)
generateFile(w) ==
  InvokeAgent([w EXCEPT !.o.handed =
                 Append(@, [step |-> w.o.current_step_index + 1,
                            attempt |-> w.o.attempt,
                            issues |-> w.o.critic_issues])],
              "coder")

RECURSIVE LoopTop(_, _)

(* a stepState that outlives its step *)
executeStep_SharedStepState(w, env) == LoopTop([w EXCEPT !.o.attempt = 0], env)

executeStep(w, env) ==
  LoopTop([w EXCEPT !.o.attempt = 0, !.o.critic_issues = Null], env)

(* a step's end that clears the count of transient failures only *)
AfterStep_KeepsRejections(w, env) ==
  LET w1 == [w EXCEPT !.o.consecutiveFailures = 0,
                      !.o.current_step_index = @ + 1]
  IN IF w1.o.current_step_index < w1.o.planLen
     THEN executeStep(w1, env)
     ELSE runVerificationPhase(w1)

(* runExecutionPhase once executeStep has returned: reset, next step or verification *)
AfterStep(w, env) ==
  LET w1 == [w EXCEPT !.o.consecutiveFailures = 0,
                      !.o.consecutiveCriticRejections = 0,
                      !.o.current_step_index = @ + 1]
  IN IF w1.o.current_step_index < w1.o.planLen
     THEN executeStep(w1, env)
     ELSE runVerificationPhase(w1)

(* a retry loop that never counts its attempts *)
LoopTop_NoIncrement(w, env) ==
  LET e1 == checkLimits(w, env.late)
      e2 == checkEmergencyStop(env.stop)
      e3 == checkFeedbackLoop(w.o)
  IN IF e1 # NoError THEN Catch(w, e1)
     ELSE IF e2 # NoError THEN Catch(w, e2)
     ELSE IF e3 # NoError THEN Catch(w, e3)
     ELSE IF w.o.abortRequested THEN Catch(w, Err("Error", "Abort requested"))
     ELSE generateFile(w)

(* head of the retry loop of executeStep, up to the Coder call *)
LoopTop(w, env) ==
  IF w.o.attempt < MAX_STEP_RETRIES
  THEN LET w1 == [w EXCEPT !.o.attempt = @ + 1, !.o.head = AtHead(w, env)]
           e1 == checkLimits(w1, env.late)
           e2 == checkEmergencyStop(env.stop)
           e3 == checkFeedbackLoop(w1.o)
       IN IF e1 # NoError THEN Catch(w1, e1)
          ELSE IF e2 # NoError THEN Catch(w1, e2)
          ELSE IF e3 # NoError THEN Catch(w1, e3)
          ELSE IF w1.o.abortRequested THEN Catch(w1, Err("Error", "Abort requested"))
          ELSE generateFile(w1)
  ELSE AfterStep(w, env)

runExecutionPhase(w, env) == executeStep([w EXCEPT !.o.current_step_index = 0], env)

(* ---- initial state: processes constructed, no Task yet ---- *)
InitOrch(strict) ==
  [pc |-> "idle", active |-> FALSE, created |-> FALSE, planLen |-> 0,
   current_step_index |-> 0, attempt |-> 0,
   consecutiveFailures |-> 0, consecutiveCriticRejections |-> 0,
   abortRequested |-> FALSE, heartbeatInterval |-> FALSE,
   strictVerification |-> strict,
   outcome |-> "none", error |-> NoError,
   invoked |-> <<>>, signals |-> 0,
   file_paths |-> <<>>, dependencies |-> <<>>, fsTouched |-> {},
   proposed |-> <<>>,        \* history: the file paths validatePlan was called on
   critic_issues |-> Null,   \* stepState.critic_issues of the step being executed
   head |-> NoHead,          \* history: what held when the retry loop was last entered
   handed |-> <<>>,          \* history: the prior issues each Coder call was given
   replies |-> <<>>,         \* history: the Critic's decisions and issues
   disk |-> NoDisk,          \* the workspace root as this process's Task sees it
   content |-> {},           \* which coder_output each file of the workspace holds
   wrote |-> NoWrite,        \* history: the latest writeFile call made on its own
   kimi |-> NewKimiClient(DefaultOptions),
   review |-> NoReview,      \* history: the latest reviewFile call
   report |-> NoReport,      \* history: what runVerificationPhase returned
   exits |-> <<>>,           \* history: the errors main() caught and its exit codes
   runs |-> 1]               \* history: the executeTask calls begun on this instance

InitWith(pidContents) ==
  /\ \E strict \in BOOLEAN : orch = [p \in Procs |-> InitOrch(strict)]
  /\ tasks = [p \in Procs |-> NoRow]
  /\ api_calls = [p \in Procs |-> [agents |-> <<>>, tokens |-> 0]]
  /\ steps = [p \in Procs |-> <<>>]
  /\ files = [p \in Procs |-> {}]
  /\ pidFile \in pidContents
  /\ heartbeatFile = [p \in Procs |-> 0]

Init == InitWith({NoPidFile})

(* ---- PID file (src/src/utils/pid.ts) ---- *)
Alive(pid) == pid \in Procs /\ orch[pid].pc # "done"

inspectPidFile(file) ==
  IF ~file.exists THEN "missing"
  ELSE IF ~file.parses THEN "invalid"
  ELSE IF file.pid = HugePidFile.pid THEN "threw"    \* the error of process.kill is rethrown
  ELSE IF Alive(file.pid) THEN "active"
  ELSE "stale"

cleanupStalePidFile(file) ==
  IF inspectPidFile(file) \in {"stale", "invalid"} THEN NoPidFile ELSE file

createPIDFile(pid) == PidFileOf(pid)

(* ---- actions of process p ---- *)

(* executeTask up to and including checkPIDFile *)
CheckPIDFile(p, valid) ==
  /\ orch[p].pc = "idle"
  /\ IF ~valid
     THEN /\ orch' = [orch EXCEPT ![p].pc = "done", ![p].outcome = "threw",
                                  ![p].error = Err("ValidationError", "Invalid task spec")]
          /\ pidFile' = pidFile
     ELSE /\ pidFile' = cleanupStalePidFile(pidFile)
          /\ IF inspectPidFile(pidFile) = "active"
             THEN orch' = [orch EXCEPT ![p].pc = "done", ![p].outcome = "threw",
                                       ![p].error = Err("Error", "Another task is running")]
             ELSE IF inspectPidFile(pidFile) = "threw"
             THEN orch' = [orch EXCEPT ![p].pc = "done", ![p].outcome = "threw",
                                       ![p].error = Err("TypeError", "ERR_INVALID_ARG_TYPE")]
             ELSE orch' = [orch EXCEPT ![p].pc = "checked"]
  /\ UNCHANGED <<tasks, api_calls, steps, files, heartbeatFile>>

(* executeTask from the task id to the Planner call: createTask, createPIDFile, *)
(* startHeartbeat (which writes once at once), runPlanningPhase's checkLimits.  *)
(* createPIDFile runs before the try block: if its write throws, executeTask    *)
(* throws with neither catch nor finally.                                       *)
CreateTask(p, pidWriteOk) ==
  /\ orch[p].pc = "checked"
  /\ LET w  == World(p)
         w0 == [w EXCEPT !.o.active = TRUE, !.o.created = TRUE,
                         !.task = createTask(@),
                         !.o.disk.dirs = @ \cup {TaskDir}]
         w1 == [w0 EXCEPT !.o.heartbeatInterval = TRUE,
                          !.pid = createPIDFile(p)]
         e  == checkLimits(w1, FALSE)
     IN IF ~pidWriteOk
        THEN /\ Commit(p, [w0 EXCEPT !.o.pc = "done", !.o.outcome = "threw",
                                     !.o.error = Err("Error", "PID file write failed")])
             /\ UNCHANGED heartbeatFile
        ELSE /\ Commit(p, IF e # NoError THEN Catch(w1, e) ELSE InvokeAgent(w1, "planner"))
             /\ heartbeatFile' = [heartbeatFile EXCEPT ![p] = @ + 1]

(* executeTask when the mkdirSync of StateManager.createTask throws: the INSERT *)
(* has been committed, and createTask is called before the try block, so       *)
(* executeTask throws with neither catch nor finally                           *)
CreateTaskThrows(p) ==
  /\ orch[p].pc = "checked"
  /\ Commit(p, [World(p) EXCEPT !.o.active = TRUE, !.o.created = TRUE,
                                !.task = createTask(@),
                                !.o.pc = "done", !.o.outcome = "threw",
                                !.o.error = Err("Error", "EACCES: mkdir")])
  /\ UNCHANGED heartbeatFile

(* runPlanningPhase once the Planner call has settled, then the first step *)
AfterPlanner(w, resp, tok, fail, env) ==
  LET w1 == [recordAPICall(w, "planner", tok, fail) EXCEPT !.o.proposed = resp.paths]
      w2 == [w1 EXCEPT !.o.planLen = resp.len,
                       !.o.file_paths = resp.paths, !.o.dependencies = resp.deps,
                       !.task = updateTaskState(storePlan(@, resp.len), "EXECUTING", "")]
  IN IF ~resp.ok THEN Catch(w, Err("Error", "Planning failed"))
     ELSE IF fail # "none" THEN Catch(w1, Err("Error", "Planning failed"))
     ELSE IF ~validatePlan(resp) THEN Catch(w1, Err("Error", "Invalid plan"))
     ELSE runExecutionPhase(w2, env)

(* the Planner call settles: rest of runPlanningPhase, then the first step *)
PlannerReturns(p, resp, tok, fail, env) ==
  /\ orch[p].pc = "planner"
  /\ Commit(p, AfterPlanner(World(p), resp, tok, fail, env))
  /\ UNCHANGED heartbeatFile

(* executeStep once the Coder call has settled: record usage and call the Critic, *)
(* or classify the error                                                          *)
AfterCoder(w, res, tok, fail, env) ==
  LET w1 == recordAPICall(w, "coder", tok, fail)
      wt == [w EXCEPT !.o.consecutiveFailures = @ + 1]
      eb == checkCircuitBreaker(wt.o)
  IN IF res = "ok"
     THEN IF fail # "none" THEN Catch(w1, Err("Error", "Step coder failed"))
          ELSE InvokeAgent(w1, "critic")
     ELSE IF res = "transient"
     THEN IF eb # NoError THEN Catch(wt, eb)
          ELSE IF wt.o.attempt >= MAX_STEP_RETRIES
               THEN Catch(wt, Err("Error", "Step failed after 3 attempts (transient errors)"))
          ELSE LoopTop(wt, env)
     ELSE Catch(w, Err("Error", "Step coder failed"))

(* the Coder call settles *)
CoderReturns(p, res, tok, fail, env) ==
  /\ orch[p].pc = "coder"
  /\ Commit(p, AfterCoder(World(p), res, tok, fail, env))
  /\ UNCHANGED heartbeatFile

(* executeStep once the Critic call has settled: record usage and the step, *)
(* accept or reject                                                         *)
AfterCritic(w, decision, issues, tok, fail, env) ==
  LET n  == w.o.current_step_index + 1
      w0 == [w EXCEPT !.o.replies = Append(@, [step |-> n, attempt |-> w.o.attempt,
                                               decision |-> decision, issues |-> issues])]
      w1 == recordAPICall(w0, "critic", tok, fail)
      w2 == [w1 EXCEPT !.o.critic_issues = Given(issues),
                       !.steps = recordStep(@, n, w.o.attempt, decision)]
      contentSize == IF fail = "write" THEN MAX_FILE_SIZE_BYTES + 1 ELSE MAX_FILE_SIZE_BYTES
      wf == StateManager_writeFile(w2.o.disk, w.o.file_paths[n], contentSize, NoFault)
      wt == [w2 EXCEPT !.o.disk = wf.disk, !.o.fsTouched = @ \cup wf.touched,
                       !.o.content = contentAfter(@, wf, w.o.file_paths[n],
                                                  [step |-> n, attempt |-> w.o.attempt])]
      wa == [wt EXCEPT !.files = writeFile(@, n)]
      wr == [w2 EXCEPT !.o.consecutiveCriticRejections = @ + 1]
  IN IF fail \in {"insert", "update"} THEN Catch(w1, Err("SqliteError", "SqliteError"))
     ELSE IF decision = "ACCEPT"
          THEN IF wf.error # NoError THEN Catch(wt, wf.error)
               ELSE AfterStep(wa, env)
     ELSE IF wr.o.attempt >= MAX_STEP_RETRIES
          THEN Catch(wr, Err("Error", "Step rejected after 3 attempts"))
     ELSE LoopTop(wr, env)

(* the Critic call settles *)
CriticReplies(p, decision, issues, tok, fail, env) ==
  /\ orch[p].pc = "critic"
  /\ Commit(p, AfterCritic(World(p), decision, issues, tok, fail, env))
  /\ UNCHANGED heartbeatFile

(* the Critic call settles, a REJECT with one issue and an ACCEPT with none *)
CriticReturns(p, decision, tok, fail, env) ==
  CriticReplies(p, decision, IF decision = "REJECT" THEN <<"i1">> ELSE <<>>,
                tok, fail, env)

(* what runVerificationPhase returned: null, or a report whose quality_score is *)
(* kept in hundredths                                                           *)
NullReport == [made |-> TRUE, obtained |-> FALSE, quality_score |-> 0]
Report(score) == [made |-> TRUE, obtained |-> TRUE, quality_score |-> score]

(* verificationReport && verificationReport.quality_score < 0.5 *)
BelowThreshold(report) == report.obtained /\ report.quality_score < 50

(* an end of executeTask that does not look at strictVerification *)
AfterVerifier_NeverStrict(w, score, tok, fail) ==
  LET w1 == recordAPICall(w, "verifier", tok, fail)
      report == IF fail # "none" THEN NullReport ELSE Report(score)
      w2 == [w1 EXCEPT !.o.report = report]
  IN Finally([w2 EXCEPT !.task =
                updateTaskState(@, IF BelowThreshold(report) THEN "COMPLETED_WITH_WARNINGS"
                                   ELSE "COMPLETED", "")],
             "returned", NoError)

(* rest of runVerificationPhase once the Verifier call has settled (an error of *)
(* recordAPICall is caught and gives null), then the end of executeTask         *)
AfterVerifier(w, score, tok, fail) ==
  LET w1 == recordAPICall(w, "verifier", tok, fail)
      report == IF fail # "none" THEN NullReport ELSE Report(score)
      w2 == [w1 EXCEPT !.o.report = report]
  IN IF BelowThreshold(report)
     THEN IF w2.o.strictVerification
          THEN Catch(w2, Err("VerificationError", "Verification failed"))
          ELSE Finally([w2 EXCEPT !.task =
                          updateTaskState(@, "COMPLETED_WITH_WARNINGS", "")],
                       "returned", NoError)
     ELSE Finally([w2 EXCEPT !.task = updateTaskState(@, "COMPLETED", "")],
                  "returned", NoError)

(* the Verifier call settles *)
VerifierReturns(p, score, tok, fail) ==
  /\ orch[p].pc = "verifier"
  /\ Commit(p, AfterVerifier(World(p), score, tok, fail))
  /\ UNCHANGED heartbeatFile

(* the INT/TERM handler, run while the driver is suspended *)
Signal(p) ==
  /\ orch[p].pc \in AwaitPcs
  /\ orch[p].signals < MaxSignals
  /\ orch' = [orch EXCEPT ![p].abortRequested = TRUE, ![p].signals = @ + 1]
  /\ tasks' = [tasks EXCEPT ![p] =
                 IF orch[p].active
                 THEN updateTaskState(@, "FAILED", "Manual abort via signal")
                 ELSE @]
  /\ UNCHANGED <<api_calls, steps, files, pidFile, heartbeatFile>>

(* A further call of executeTask on the same Orchestrator, after the previous *)
(* call has returned or thrown. The new Task has a new task_id, so its row,   *)
(* StepRecords, APICallRecords and workspace start empty and the histories    *)
(* start over; the fields of the instance are whatever the previous call left *)
(* them: they are assigned by the field initialisers only, and executeTask    *)
(* assigns none of consecutiveFailures, consecutiveCriticRejections and       *)
(* abortRequested before its first use of them.                               *)
ExecuteTaskAgain(p) ==
  /\ orch[p].pc = "done"
  /\ orch[p].runs < MaxRuns
  /\ orch' = [orch EXCEPT ![p] =
       [InitOrch(orch[p].strictVerification) EXCEPT
          !.consecutiveFailures = orch[p].consecutiveFailures,
          !.consecutiveCriticRejections = orch[p].consecutiveCriticRejections,
          !.abortRequested = orch[p].abortRequested,
          !.heartbeatInterval = orch[p].heartbeatInterval,
          !.kimi = orch[p].kimi,
          !.signals = orch[p].signals,
          !.exits = orch[p].exits,
          !.runs = orch[p].runs + 1]]
  /\ tasks' = [tasks EXCEPT ![p] = NoRow]
  /\ api_calls' = [api_calls EXCEPT ![p] = [agents |-> <<>>, tokens |-> 0]]
  /\ steps' = [steps EXCEPT ![p] = <<>>]
  /\ files' = [files EXCEPT ![p] = {}]
  /\ UNCHANGED <<pidFile, heartbeatFile>>

(* the heartbeat timer fires *)
Heartbeat(p) ==
  /\ orch[p].heartbeatInterval
  /\ orch[p].pc \in AwaitPcs \cup {"done"}
  /\ heartbeatFile[p] < MaxHeartbeats
  /\ heartbeatFile' = [heartbeatFile EXCEPT ![p] = @ + 1]
  /\ UNCHANGED <<orch, tasks, api_calls, steps, files, pidFile>>

(* ---- inputs ---- *)
(* the operation that throws while a call's result is processed: none, one of *)
(* the two statements of recordAPICall, or (after the Critic) writeFile       *)
Fails == {"none", "insert", "update"}
CriticFails == Fails \cup {"write"}
Envs == [late : BOOLEAN, stop : BOOLEAN]
CalmEnv == [late |-> FALSE, stop |-> FALSE]
SafePath == <<"a">>
Plan(n, paths, deps) ==
  [ok |-> TRUE, wellFormed |-> TRUE, len |-> n, paths |-> paths, deps |-> deps]
PlanOf(n) == Plan(n, [i \in 1..n |-> SafePath], [i \in 1..n |-> {}])
NoPlan == [ok |-> FALSE, wellFormed |-> FALSE, len |-> 0, paths |-> <<>>, deps |-> <<>>]
PlannerResponses ==
  {NoPlan, [PlanOf(1) EXCEPT !.wellFormed = FALSE]}
  \cup {PlanOf(n) : n \in 0..MaxPlanLen}

(* quality scores in hundredths: just below the threshold of 0.5, and at it *)
Scores == {49, 50}

(* ---- Spec: one process, every outcome of every call ---- *)
Next ==
  \/ \E valid \in BOOLEAN : CheckPIDFile(1, valid)
  \/ \E pidWriteOk \in BOOLEAN : CreateTask(1, pidWriteOk)
  \/ CreateTaskThrows(1)
  \/ \E resp \in PlannerResponses, tok \in TokChoices, fail \in Fails, env \in Envs :
       PlannerReturns(1, resp, tok, fail, env)
  \/ \E res \in {"ok", "transient", "fatal"}, tok \in TokChoices, fail \in Fails, env \in Envs :
       CoderReturns(1, res, tok, fail, env)
  \/ \E d \in {"ACCEPT", "REJECT"}, tok \in TokChoices, fail \in CriticFails, env \in Envs :
       CriticReturns(1, d, tok, fail, env)
  \/ \E score \in Scores, tok \in TokChoices, fail \in Fails :
       VerifierReturns(1, score, tok, fail)
  \/ Signal(1)
  \/ Heartbeat(1)

Spec == Init /\ [][Next]_vars

(* ---- SpecPid: all processes race through intake and exit; calm LLM ---- *)
InitPid == InitWith({NoPidFile, GarbledPidFile, StalePidFile, HugePidFile})

NextPid ==
  \/ \E p \in Procs : CheckPIDFile(p, TRUE)
  \/ \E p \in Procs : CreateTask(p, TRUE)
  \/ \E p \in Procs : PlannerReturns(p, PlanOf(1), 0, "none", CalmEnv)
  \/ \E p \in Procs : CoderReturns(p, "ok", 0, "none", CalmEnv)
  \/ \E p \in Procs : CriticReturns(p, "ACCEPT", 0, "none", CalmEnv)
  \/ \E p \in Procs : VerifierReturns(p, 100, 0, "none")

SpecPid == InitPid /\ [][NextPid]_vars

(* ---- SpecCalls: one process, a long plan, the Critic accepting every third ---- *)
(* attempt, no token usage and no failure                                       *)
NextCalls ==
  \/ CheckPIDFile(1, TRUE)
  \/ CreateTask(1, TRUE)
  \/ \E n \in {1, CallsPlanLen} : PlannerReturns(1, PlanOf(n), 0, "none", CalmEnv)
  \/ CoderReturns(1, "ok", 0, "none", CalmEnv)
  \/ CriticReturns(1, IF orch[1].attempt < MAX_STEP_RETRIES THEN "REJECT" ELSE "ACCEPT",
                   0, "none", CalmEnv)
  \/ VerifierReturns(1, 100, 0, "none")

SpecCalls == Init /\ [][NextCalls]_vars

(* ---- the agents' calls made through the LLM client ---- *)

(* the Coder's chat settles; CoderAgent lets an error of chat through to the *)
(* catch of executeStep, which classifies it with isTransientError           *)
CoderChatReturns(p, in, env) ==
  /\ orch[p].pc = "coder"
  /\ LET k == chat(orch[p].kimi, "coder", in)
         w == [World(p) EXCEPT !.o.kimi = k]
         res == IF k.result = NoClientError THEN "ok"
                ELSE IF isTransientError(k.result) THEN "transient" ELSE "fatal"
     IN Commit(p, AfterCoder(w, res, 0, "none", env))
  /\ UNCHANGED heartbeatFile

(* the Planner's chat settles; PlannerAgent lets an error of chat through to *)
(* the catch of runPlanningPhase, and parses the reply otherwise             *)
PlannerChatReturns(p, in, resp, env) ==
  /\ orch[p].pc = "planner"
  /\ LET k == chat(orch[p].kimi, "planner", in)
         w == [World(p) EXCEPT !.o.kimi = k]
     IN Commit(p, AfterPlanner(w, IF k.result = NoClientError THEN resp ELSE NoPlan,
                               0, "none", env))
  /\ UNCHANGED heartbeatFile

(* what one fetch may do: answer with a status after a latency, fail to connect, *)
(* or never answer                                                               *)
Latencies == {100, 30000}
Jitters == {-25, 25}
Responses(statuses, latencies) ==
  {[kind |-> "response", status |-> st, latency |-> l] : st \in statuses, l \in latencies}
NetworkFailures(latencies) ==
  {[kind |-> "network", status |-> 0, latency |-> l] : l \in latencies}
Hang == [kind |-> "hang", status |-> 0, latency |-> 0]

ChatInputs(outcomes, jitters) ==
  [outs : [1..MAX_RATE_LIMIT_RETRIES -> outcomes], jitter : jitters, rounds : {<<>>}]

(* ---- SpecOutage: one process, a one-step plan, and an endpoint that answers ---- *)
(* every request of the Coder with 503, quickly or slowly                         *)
NextOutage ==
  \/ CheckPIDFile(1, TRUE)
  \/ CreateTask(1, TRUE)
  \/ PlannerReturns(1, PlanOf(1), 0, "none", CalmEnv)
  \/ \E in \in ChatInputs(Responses({503}, Latencies), Jitters) :
       CoderChatReturns(1, in, CalmEnv)

SpecOutage == Init /\ [][NextOutage]_vars

(* ---- SpecFatal: one process, a one-step plan with a safe or an absolute path, ---- *)
(* and an endpoint that answers the Planner and the Coder with 200, 401 or 503   *)
FatalPlans == {PlanOf(1), Plan(1, <<<<"/", "a">>>>, <<{}>>)}

NextFatal ==
  \/ CheckPIDFile(1, TRUE)
  \/ CreateTask(1, TRUE)
  \/ \E in \in ChatInputs(Responses({200, 401, 503}, {100}), {25}), plan \in FatalPlans :
       PlannerChatReturns(1, in, plan, CalmEnv)
  \/ \E in \in ChatInputs(Responses({200, 401, 503}, {100}), {25}) :
       CoderChatReturns(1, in, CalmEnv)
  \/ \E d \in {"ACCEPT", "REJECT"} : CriticReturns(1, d, 0, "none", CalmEnv)
  \/ VerifierReturns(1, 100, 0, "none")

SpecFatal == Init /\ [][NextFatal]_vars

(* ---- SpecReview: one process, plans of two and three steps, a Coder that ---- *)
(* always answers and a Critic that accepts or rejects; no budget is reached  *)
NextReview ==
  \/ CheckPIDFile(1, TRUE)
  \/ CreateTask(1, TRUE)
  \/ \E n \in {2, ReviewPlanLen} : PlannerReturns(1, PlanOf(n), 0, "none", CalmEnv)
  \/ CoderReturns(1, "ok", 0, "none", CalmEnv)
  \/ \E d \in {"ACCEPT", "REJECT"} : CriticReturns(1, d, 0, "none", CalmEnv)
  \/ \E score \in Scores : VerifierReturns(1, score, 0, "none")
  \/ Heartbeat(1)

SpecReview == Init /\ [][NextReview]_vars

(* ---- SpecPaths: one process, a one-step plan whose file_path is any string ---- *)
(* of up to MaxPathLen characters                                                *)
PathChars == {"a", ".", "/", "\n"}
AllPaths ==
  UNION {[1..n -> PathChars] : n \in 1..MaxPathLen} \cup {<<"a", "/", "/", "b">>}

NextPaths ==
  \/ CheckPIDFile(1, TRUE)
  \/ CreateTask(1, TRUE)
  \/ \E path \in AllPaths :
       PlannerReturns(1, Plan(1, <<path>>, <<{}>>), 0, "none", CalmEnv)
  \/ CoderReturns(1, "ok", 0, "none", CalmEnv)
  \/ \E d \in {"ACCEPT", "REJECT"} : CriticReturns(1, d, 0, "none", CalmEnv)
  \/ VerifierReturns(1, 100, 0, "none")

SpecPaths == Init /\ [][NextPaths]_vars

(* ---- SpecFiles: one process, plans of FilesPlanLen steps whose file paths are ---- *)
(* distinct plain relative paths, no call failing                                 *)
FilePaths == {<<"a">>, <<"b">>, <<"a", ".", "t", "m", "p">>, <<"a", "/", "b">>}

FilePlans ==
  {Plan(FilesPlanLen, paths, [i \in 1..FilesPlanLen |-> {}]) :
     paths \in {f \in [1..FilesPlanLen -> FilePaths] :
                  \A i, j \in 1..FilesPlanLen : f[i] = f[j] => i = j}}

NextFiles ==
  \/ CheckPIDFile(1, TRUE)
  \/ CreateTask(1, TRUE)
  \/ \E plan \in FilePlans : PlannerReturns(1, plan, 0, "none", CalmEnv)
  \/ CoderReturns(1, "ok", 0, "none", CalmEnv)
  \/ \E d \in {"ACCEPT", "REJECT"} : CriticReturns(1, d, 0, "none", CalmEnv)
  \/ \E score \in Scores : VerifierReturns(1, score, 0, "none")

SpecFiles == Init /\ [][NextFiles]_vars

(* ---- SpecIssues: one process, a plan of IssuesPlanLen steps, the Coder failing ---- *)
(* transiently or not, the Critic accepting or rejecting with any list of issues   *)
CriticIssues == {<<>>, <<"i1">>, <<"i2">>}

NextIssues ==
  \/ CheckPIDFile(1, TRUE)
  \/ CreateTask(1, TRUE)
  \/ PlannerReturns(1, PlanOf(IssuesPlanLen), 0, "none", CalmEnv)
  \/ \E res \in {"ok", "transient"} : CoderReturns(1, res, 0, "none", CalmEnv)
  \/ CriticReplies(1, "ACCEPT", <<"i1">>, 0, "none", CalmEnv)
  \/ \E issues \in CriticIssues : CriticReplies(1, "REJECT", issues, 0, "none", CalmEnv)
  \/ VerifierReturns(1, 100, 0, "none")

SpecIssues == Init /\ [][NextIssues]_vars

(* ---- SpecRerun: one Orchestrator, MaxRuns calls of executeTask one after the ---- *)
(* other, one-step plans, the Coder failing transiently, the Critic rejecting, a    *)
(* signal arriving during a call                                                    *)
NextRerun ==
  \/ CheckPIDFile(1, TRUE)
  \/ CreateTask(1, TRUE)
  \/ PlannerReturns(1, PlanOf(1), 0, "none", CalmEnv)
  \/ \E res \in {"ok", "transient"} : CoderReturns(1, res, 0, "none", CalmEnv)
  \/ \E d \in {"ACCEPT", "REJECT"} : CriticReturns(1, d, 0, "none", CalmEnv)
  \/ VerifierReturns(1, 100, 0, "none")
  \/ Signal(1)
  \/ ExecuteTaskAgain(1)

SpecRerun == Init /\ [][NextRerun]_vars

(* ---- SpecTree: one process, plans of FilesPlanLen steps over FilePaths, which ---- *)
(* validatePlan accepts whether or not two steps share a path; no call failing     *)
TreePlans ==
  {Plan(FilesPlanLen, paths, [i \in 1..FilesPlanLen |-> {}]) :
     paths \in [1..FilesPlanLen -> FilePaths]}

NextTree ==
  \/ CheckPIDFile(1, TRUE)
  \/ CreateTask(1, TRUE)
  \/ \E plan \in TreePlans : PlannerReturns(1, plan, 0, "none", CalmEnv)
  \/ CoderReturns(1, "ok", 0, "none", CalmEnv)
  \/ \E d \in {"ACCEPT", "REJECT"} : CriticReturns(1, d, 0, "none", CalmEnv)
  \/ VerifierReturns(1, 100, 0, "none")

SpecTree == Init /\ [][NextTree]_vars

(* ---- SpecDeps: one process, plans of DepPlanLen steps whose dependencies are ---- *)
(* any sets of step numbers, one of them not in the plan                          *)
DepPlans ==
  {Plan(DepPlanLen, [i \in 1..DepPlanLen |-> SafePath], deps) :
     deps \in [1..DepPlanLen -> SUBSET (1..(DepPlanLen + 1))]}

NextDeps ==
  \/ CheckPIDFile(1, TRUE)
  \/ CreateTask(1, TRUE)
  \/ \E plan \in DepPlans : PlannerReturns(1, plan, 0, "none", CalmEnv)
  \/ CoderReturns(1, "ok", 0, "none", CalmEnv)
  \/ \E d \in {"ACCEPT", "REJECT"} : CriticReturns(1, d, 0, "none", CalmEnv)
  \/ VerifierReturns(1, 100, 0, "none")

SpecDeps == Init /\ [][NextDeps]_vars

(* ---- the LLM client used on its own ---- *)

(* one chat call on p's client, gap milliseconds after the previous one settled *)
Chat(p, gap, in, limit) ==
  /\ orch[p].pc = "idle"
  /\ orch[p].kimi.chats < limit
  /\ orch' = [orch EXCEPT ![p].kimi = chat([@ EXCEPT !.now = @ + gap], "coder", in)]
  /\ UNCHANGED <<tasks, api_calls, steps, files, pidFile, heartbeatFile>>

AllOutcomes ==
  Responses({200, 400, 429, 503}, Latencies) \cup NetworkFailures(Latencies) \cup {Hang}

(* ---- SpecChat: chat calls with every outcome of every fetch ---- *)
NextChat == \E in \in ChatInputs(AllOutcomes, Jitters) : Chat(1, 0, in, MaxChats)

SpecChat == Init /\ [][NextChat]_vars

(* ---- SpecBreaker: a run of chat calls, back to back or a window apart, against ---- *)
(* an endpoint that answers, fails with 503 or cannot be reached                  *)
NextBreaker ==
  \E gap \in {0, API_ERROR_RATE_WINDOW_MS},
     in \in ChatInputs(Responses({200, 503}, {100}) \cup NetworkFailures({100}), {25}) :
    Chat(1, gap, in, BreakerChats)

SpecBreaker == Init /\ [][NextBreaker]_vars

(* ---- SpecCritic: reviewFile called on a client whose requests succeed, fail ---- *)
(* or hang, with every shape of reply                                           *)
Replies ==
  {[NoReply EXCEPT !.json = j, !.usage = 1] : j \in ReplyShapes \ {"object"}}
  \cup [json : {"object"}, decision : {"missing", "ACCEPT", "REJECT", "MAYBE"},
        issues : {[isArray |-> TRUE, items |-> <<>>],
                  [isArray |-> TRUE, items |-> <<"BLOCKER">>],
                  [isArray |-> FALSE, items |-> <<>>]},
        usage : {1}]

(* the first request succeeds, fails with 503, cannot connect or hangs; a retry *)
(* succeeds or fails with 503                                                   *)
CriticInputs ==
  {[outs |-> <<a, b, b>>, jitter |-> 25, rounds |-> <<>>] :
     a \in Responses({200, 503}, {100}) \cup NetworkFailures({100}) \cup {Hang},
     b \in Responses({200, 503}, {100})}

ReviewFile(p, in, reply) ==
  /\ orch[p].pc = "idle"
  /\ orch[p].kimi.chats < MaxReviews
  /\ LET r == reviewFile(orch[p].kimi, in, reply)
     IN orch' = [orch EXCEPT ![p].kimi = r.kimi,
                             ![p].review = [made |-> TRUE,
                                            failed |-> r.kimi.result # NoClientError,
                                            reply |-> reply, out |-> r.out]]
  /\ UNCHANGED <<tasks, api_calls, steps, files, pidFile, heartbeatFile>>

NextCritic ==
  \E in \in CriticInputs, reply \in Replies : ReviewFile(1, in, reply)

SpecCritic == Init /\ [][NextCritic]_vars

(* ---- SpecWrite: writeFile called on its own, with contents at and just over ---- *)
(* the size limit and every operation of the file system failing or not          *)
WritePaths == {<<"a">>, <<"a", ".", "t", "m", "p">>, <<"a", "/", "b">>, <<".">>}

WriteFile(p, filePath, contentSize, fault) ==
  /\ orch[p].pc = "idle"
  /\ orch[p].wrote.n < MaxWrites
  /\ LET r == StateManager_writeFile(orch[p].disk, filePath, contentSize, fault)
     IN orch' = [orch EXCEPT ![p].disk = r.disk,
                             ![p].wrote = [n |-> @.n + 1, filePath |-> filePath,
                                           contentSize |-> contentSize, fault |-> fault,
                                           before |-> orch[p].disk, error |-> r.error]]
  /\ UNCHANGED <<tasks, api_calls, steps, files, pidFile, heartbeatFile>>

NextWrite ==
  \E filePath \in WritePaths,
     contentSize \in {MAX_FILE_SIZE_BYTES, MAX_FILE_SIZE_BYTES + 1},
     fault \in FsFaults :
    WriteFile(1, filePath, contentSize, fault)

(* the Task exists: createTask has made its workspace directory *)
InitWrite ==
  /\ \E strict \in BOOLEAN :
       orch = [p \in Procs |-> [InitOrch(strict) EXCEPT !.disk.dirs = @ \cup {TaskDir}]]
  /\ tasks = [p \in Procs |-> NoRow]
  /\ api_calls = [p \in Procs |-> [agents |-> <<>>, tokens |-> 0]]
  /\ steps = [p \in Procs |-> <<>>]
  /\ files = [p \in Procs |-> {}]
  /\ pidFile = NoPidFile
  /\ heartbeatFile = [p \in Procs |-> 0]

SpecWrite == InitWrite /\ [][NextWrite]_vars

(* ---- SpecExit: main() run again and again, handleCommand throwing each of ---- *)
(* the errors the program raises, a platform error, or a value that is no Error  *)
ThrownValues ==
  { Err("ValidationError", "Invalid task spec"),
    Err("VerificationError", "Verification failed"),
    Err("APIError", "403"), Err("APIError", "500"),
    Err("TimeoutError", "Request timeout"),
    Err("LimitExceededError", "api_calls"),
    Err("LimitExceededError", "tokens"),
    Err("LimitExceededError", "wall_time"),
    Err("CircuitBreakerError", "Circuit breaker activated"),
    Err("SwarmError", "unclassified"),
    Err("Error", "Emergency stop"),
    Err("TypeError", "ERR_INVALID_ARG_TYPE"),
    Err("SqliteError", "SqliteError"),
    Err("none", "a string") }

Main(p, error) ==
  /\ orch[p].pc = "idle"
  /\ Len(orch[p].exits) < MaxExits
  /\ orch' = [orch EXCEPT ![p].exits =
                Append(@, [error |-> error, code |-> getExitCodeForError(error)])]
  /\ UNCHANGED <<tasks, api_calls, steps, files, pidFile, heartbeatFile>>

NextExit == \E error \in ThrownValues : Main(1, error)

SpecExit == Init /\ [][NextExit]_vars

(* ---- SpecLimiter: a RateLimiter used on its own, with the production or the ---- *)
(* test options, acquire called back to back or after a pause                    *)
InitLimiter ==
  /\ \E options \in {DefaultOptions, TestOptions} :
       orch = [p \in Procs |->
                 [InitOrch(FALSE) EXCEPT !.kimi.rateLimiter = NewRateLimiter(options, 0)]]
  /\ tasks = [p \in Procs |-> NoRow]
  /\ api_calls = [p \in Procs |-> [agents |-> <<>>, tokens |-> 0]]
  /\ steps = [p \in Procs |-> <<>>]
  /\ files = [p \in Procs |-> {}]
  /\ pidFile = NoPidFile
  /\ heartbeatFile = [p \in Procs |-> 0]

(* ratePerMs is the double nearest to tokensPerInterval / intervalMs: it is above *)
(* the quotient for 1 / 1000 and below it for 10 / 60000, and a refill is exact  *)
(* or off by a unit on that side                                                 *)
Roundings(rl) == IF rl.tokensPerInterval = TestOptions.tokensPerInterval THEN {0, 1} ELSE {-1, 0}
Gaps == {0, 2, 1000}

(* one acquire on the limiter of p's client, gap milliseconds after the previous one *)
Acquire(p, gap, rounds, over) ==
  /\ orch[p].pc = "idle"
  /\ orch[p].kimi.rateLimiter.acquires < MaxAcquires
  /\ orch' = [orch EXCEPT ![p].kimi = acquire([@ EXCEPT !.now = @ + gap], rounds, over)]
  /\ UNCHANGED <<tasks, api_calls, steps, files, pidFile, heartbeatFile>>

NextLimiter ==
  \E gap \in Gaps, rounds \in [1..2 -> Roundings(orch[1].kimi.rateLimiter)], over \in {0, 1} :
    Acquire(1, gap, rounds, over)

SpecLimiter == InitLimiter /\ [][NextLimiter]_vars

(* ======================= claims ======================= *)

AllowedTransitions ==
  {<<"none", "PLANNING">>, <<"PLANNING", "EXECUTING">>, <<"EXECUTING", "VERIFYING">>,
   <<"VERIFYING", "COMPLETED">>, <<"VERIFYING", "COMPLETED_WITH_WARNINGS">>}
  \cup {<<s, "FAILED">> : s \in {"PLANNING", "EXECUTING", "VERIFYING"}}

(* C1: the persisted state of a Task changes only along PLANNING -> EXECUTING ->  *)
(* VERIFYING -> COMPLETED | COMPLETED_WITH_WARNINGS or from a non-terminal state  *)
(* to FAILED, and once it is terminal the Task row never changes again.           *)
C1_TerminalSealed ==
  [][\A p \in Procs :
       /\ tasks'[p].state # tasks[p].state
            => <<tasks[p].state, tasks'[p].state>> \in AllowedTransitions
       /\ tasks[p].state \in TerminalStates => tasks'[p] = tasks[p]]_vars

(* C2: a Task that received INT/TERM while active has the final persisted state *)
(* FAILED when executeTask has ended.                                            *)
C2_SignalledEndsFailed ==
  \A p \in Procs :
    (orch[p].pc = "done" /\ orch[p].created /\ orch[p].abortRequested)
      => tasks[p].state = "FAILED"

BeginsWithManualAbort(m) == m \in {"Manual abort via signal"}

(* C3: once executeTask has thrown the abort error raised for a signal, the *)
(* persisted error_message begins with "Manual abort".                      *)
C3_AbortMessage ==
  \A p \in Procs :
    (orch[p].pc = "done" /\ orch[p].outcome = "threw"
       /\ orch[p].abortRequested /\ orch[p].error.msg = "Abort requested")
      => BeginsWithManualAbort(tasks[p].error_message)

C5_AtMostOneActive == Cardinality({p \in Procs : orch[p].active}) <= 1

(* C6: a process leaving its Task removes the PID file only if the file holds *)
(* its own PID.                                                               *)
C6_RemovesOnlyOwnPid ==
  [][\A p \in Procs :
       (orch[p].active /\ ~orch'[p].active /\ pidFile.exists /\ ~pidFile'.exists)
         => (pidFile.parses /\ pidFile.pid = p)]_vars

(* C7: the persisted api_call_count is the number of api_calls rows of the Task *)
(* and the persisted total_tokens is the sum of their token counts.             *)
C7_CountersMatchRecords ==
  \A p \in Procs :
    /\ tasks[p].api_call_count = Len(api_calls[p].agents)
    /\ tasks[p].total_tokens = api_calls[p].tokens

(* C8: no Coder or Critic call is in flight while the persisted api_call_count *)
(* is at least MAX_API_CALLS or the persisted total_tokens at least            *)
(* MAX_TOTAL_TOKENS (the counters do not change while a call is in flight).    *)
C8_NoAgentOverBudget ==
  \A p \in Procs :
    orch[p].pc \in {"coder", "critic"}
      => /\ tasks[p].api_call_count < MAX_API_CALLS
         /\ tasks[p].total_tokens < MAX_TOTAL_TOKENS

(* C9: the persisted api_call_count never exceeds MAX_API_CALLS. *)
C9_CallCap == \A p \in Procs : tasks[p].api_call_count <= MAX_API_CALLS

Invocations(p, agent, n) ==
  {k \in DOMAIN orch[p].invoked : orch[p].invoked[k] = [agent |-> agent, step |-> n]}
RecordsOf(p, n) == {k \in DOMAIN steps[p] : steps[p][k].step_number = n}

(* C10: for every step the Coder and the Critic are each invoked at most        *)
(* MAX_STEP_RETRIES times, every StepRecord has an attempt in 1..MAX_STEP_RETRIES *)
(* and no two StepRecords of one step have the same attempt.                    *)
C10_AttemptsBounded ==
  \A p \in Procs :
    /\ \A n \in 1..orch[p].planLen :
         /\ Cardinality(Invocations(p, "coder", n)) <= MAX_STEP_RETRIES
         /\ Cardinality(Invocations(p, "critic", n)) <= MAX_STEP_RETRIES
    /\ \A k \in DOMAIN steps[p] : steps[p][k].attempt \in 1..MAX_STEP_RETRIES
    /\ \A j, k \in DOMAIN steps[p] :
         (j # k /\ steps[p][j].step_number = steps[p][k].step_number)
           => steps[p][j].attempt # steps[p][k].attempt

(* a step used all three attempts: three Coder calls, three StepRecords *)
C10_Witness ==
  \E p \in Procs : \E n \in 1..orch[p].planLen :
    /\ Cardinality(Invocations(p, "coder", n)) = MAX_STEP_RETRIES
    /\ Cardinality(RecordsOf(p, n)) = MAX_STEP_RETRIES

(* C11: when every HTTP response to the Coder's requests was a 503 and the step *)
(* took three Coder attempts, executeTask ends with the orchestrator's          *)
(* consecutive-failure CircuitBreakerError and the Task is FAILED.              *)
C11_ThreeFailuresTripBreaker ==
  \A p \in Procs :
    (/\ orch[p].pc = "done"
     /\ Cardinality(Invocations(p, "coder", 1)) = MAX_STEP_RETRIES
     /\ \A i \in DOMAIN orch[p].kimi.http :
          orch[p].kimi.http[i].agent = "coder"
            => orch[p].kimi.http[i].kind = "response" /\ orch[p].kimi.http[i].status = 503)
      => /\ orch[p].error = Err("CircuitBreakerError", "Circuit breaker activated")
         /\ tasks[p].state = "FAILED"

(* C12: a finished Task of a plan of two or more steps in which the Critic   *)
(* rejected every Coder output was failed by the feedback-loop breaker: a     *)
(* CircuitBreakerError saying the Coder is unable to satisfy the Critic.      *)
C12_FeedbackLoopTrips ==
  \A p \in Procs :
    (/\ orch[p].pc = "done" /\ orch[p].planLen >= 2
     /\ steps[p] # <<>>
     /\ \A k \in DOMAIN steps[p] : steps[p][k].critic_decision = "REJECT")
      => /\ orch[p].error.kind = "CircuitBreakerError"
         /\ orch[p].error.msg =
              "Feedback loop detected. Coder unable to satisfy Critic requirements."

(* the processing of step n of p's plan has ended *)
StepEnded(p, n) == orch[p].pc = "done" \/ orch[p].current_step_index + 1 > n

(* C13: for every StepRecord with critic_decision ACCEPT whose step has ended, *)
(* the workspace holds the file of that step.                                  *)
C13_AcceptedHasFile ==
  \A p \in Procs : \A k \in DOMAIN steps[p] :
    (steps[p][k].critic_decision = "ACCEPT" /\ StepEnded(p, steps[p][k].step_number))
      => steps[p][k].step_number \in files[p]

StrictlyInside(path, dir) ==
  StartsWith(path, dir \o <<"/">>) /\ Len(path) > Len(dir) + 1

(* C14: every path writeFile touched for a Task, the destination and its .tmp *)
(* sibling, lies strictly inside the Task's workspace directory.              *)
C14_WritesInsideWorkspace ==
  \A p \in Procs : \A path \in orch[p].fsTouched : StrictlyInside(path, TaskDir)

Accepted(p, n) ==
  \E k \in DOMAIN steps[p] :
    steps[p][k].step_number = n /\ steps[p][k].critic_decision = "ACCEPT"

(* C15: the Coder has been invoked for a step of an accepted plan only if every *)
(* step in its dependencies has been ACCEPTED.                                  *)
C15_DependenciesFirst ==
  \A p \in Procs : \A n \in 1..orch[p].planLen :
    Invocations(p, "coder", n) # {}
      => \A d \in orch[p].dependencies[n] : Accepted(p, d)

(* the attempts of the latest chat of p's client, and what it raised *)
Attempts(p) == orch[p].kimi.attempts
Raised(p) == orch[p].kimi.result

IsServerErrorOrTimeout(a) ==
  a.issued /\ (a.kind = "abort" \/ (a.kind = "response" /\ a.status >= 500 /\ a.status < 600))
IsNonTransient(a) ==
  a.issued /\ a.kind = "response" /\ a.status >= 300 /\ a.status # 429 /\ a.status < 500

(* the error a failed request stands for *)
ErrorOf(a) ==
  IF a.kind = "abort" THEN TimeoutError
  ELSE IF a.kind = "network" THEN APIError(0, TRUE)
  ELSE APIError(a.status, ~IsNonTransient(a))

C17_NetworkRetried ==
  \A p \in Procs :
    (Attempts(p) # <<>> /\ Attempts(p)[1].issued /\ Attempts(p)[1].kind = "network")
      => Len(Attempts(p)) >= 2

(* errors recorded before attempt a and less than the window old when it was made *)
InWindow(p, a) ==
  {i \in 1..a.errorsBefore :
     orch[p].kimi.errorLog[i] > a.at - API_ERROR_RATE_WINDOW_MS}

(* C18: an attempt of a chat issues its request exactly when fewer than       *)
(* API_ERROR_RATE_LIMIT recorded errors are less than API_ERROR_RATE_WINDOW_MS *)
(* old; otherwise the chat raises CircuitBreakerError without a request.       *)
C18_BreakerWindow ==
  \A p \in Procs : \A i \in DOMAIN Attempts(p) :
    LET a == Attempts(p)[i]
    IN /\ a.issued <=> Cardinality(InWindow(p, a)) < API_ERROR_RATE_LIMIT
       /\ ~a.issued => i = Len(Attempts(p)) /\ Raised(p) = ClientBreakerError

(* the breaker has refused a request, and a later chat, the errors having aged *)
(* out, issued one                                                             *)
C18_Witness ==
  \E p \in Procs :
    /\ orch[p].kimi.refused >= 1
    /\ Attempts(p) # <<>> /\ Attempts(p)[1].issued
    /\ Attempts(p)[1].errorsBefore >= API_ERROR_RATE_LIMIT

(* the latest acquire of p's limiter *)
Sleeps(p) == orch[p].kimi.rateLimiter.sleeps
RatePerMs(p) == orch[p].kimi.rateLimiter.tokensPerInterval * Resolution

(* C19: an acquire sleeps at most once, and when it sleeps it sleeps the least *)
(* whole number of milliseconds in which the missing part of a token refills.  *)
C19_SingleSleep ==
  \A p \in Procs :
    /\ Len(Sleeps(p)) <= 1
    /\ \A i \in DOMAIN Sleeps(p) :
         /\ Sleeps(p)[i].ms * RatePerMs(p) >= Sleeps(p)[i].missing
         /\ (Sleeps(p)[i].ms - 1) * RatePerMs(p) < Sleeps(p)[i].missing

(* the latest reviewFile call of p got no usable review: the chat failed, the  *)
(* reply was not a JSON object, its decision was invalid or its issues were no *)
(* array                                                                       *)
Unusable(p) ==
  LET v == orch[p].review
  IN \/ v.failed
     \/ v.reply.json # "object"
     \/ v.reply.decision \notin {"ACCEPT", "REJECT"}
     \/ ~v.reply.issues.isArray

(* C20: a reviewFile call that got no usable review returned decision ACCEPT *)
(* with an empty issues list.                                                *)
C20_CriticFailsOpen ==
  \A p \in Procs :
    (orch[p].review.made /\ Unusable(p))
      => orch[p].review.out.decision = "ACCEPT" /\ orch[p].review.out.issues = <<>>

(* executeTask of p has ended after runVerificationPhase returned *)
Verified(p) == orch[p].pc = "done" /\ orch[p].report.made

C22_CreateTaskAtomic ==
  \A p \in Procs :
    (orch[p].pc = "done" /\ orch[p].error = Err("Error", "EACCES: mkdir"))
      => tasks[p] = NoRow

(* the temporary file of the latest writeFile call of p *)
TmpOf(p) == sanitizeFilePath(TaskDir, orch[p].wrote.filePath).path \o TmpSuffix

SizeError == Err("ValidationError", "File size exceeds limit")

(* the latest writeFile call of p left a temporary file it created *)
TmpLeft(p) == TmpOf(p) \in orch[p].disk.files /\ TmpOf(p) \notin orch[p].wrote.before.files

(* content of MAX_FILE_SIZE_BYTES passes the size check, one byte more is *)
(* rejected with the disk untouched                                       *)
SizeLimit(p) ==
  LET v == orch[p].wrote
  IN /\ v.contentSize = MAX_FILE_SIZE_BYTES => v.error # SizeError
     /\ v.contentSize = MAX_FILE_SIZE_BYTES + 1
          => v.error = SizeError /\ orch[p].disk = v.before

Intake(p) ==
  /\ orch[p].pc = "idle" /\ orch'[p].pc # "idle"
  /\ orch'[p].error.kind # "ValidationError"

(* C24: the intake removes the PID file exactly when its inspection says stale *)
(* or invalid, after which an inspection says missing; it keeps a file that    *)
(* records a live PID; and it throws exactly when the inspection says active.  *)
C24_PidCleanup ==
  [][\A p \in Procs :
       Intake(p) =>
         /\ pidFile' # pidFile <=> inspectPidFile(pidFile) \in {"stale", "invalid"}
         /\ pidFile' # pidFile => ~pidFile'.exists
         /\ (pidFile.exists /\ pidFile.parses /\ Alive(pidFile.pid)) => pidFile' = pidFile
         /\ orch'[p].outcome = "threw" <=> inspectPidFile(pidFile) = "active"]_vars

(* C25: whatever main() catches, the process exits with 1 for a ValidationError, *)
(* 3 for a VerificationError, 2 for an APIError, a TimeoutError, a               *)
(* LimitExceededError of any limit type and a CircuitBreakerError, and 4 for     *)
(* every other thrown value.                                                     *)
C25_ExitCodes ==
  \A p \in Procs : \A i \in 1..Len(orch[p].exits) :
    LET x == orch[p].exits[i]
    IN x.code = CASE x.error.kind = "ValidationError" -> 1
                  [] x.error.kind = "VerificationError" -> 3
                  [] x.error.kind \in {"APIError", "TimeoutError", "LimitExceededError",
                                       "CircuitBreakerError"} -> 2
                  [] OTHER -> 4

C25_Witness ==
  \E p \in Procs :
    /\ Len(orch[p].exits) = 2
    /\ orch[p].exits[1] = [error |-> Err("LimitExceededError", "api_calls"), code |-> 2]
    /\ orch[p].exits[2] = [error |-> Err("TypeError", "ERR_INVALID_ARG_TYPE"), code |-> 4]

(* the class [A-Za-z0-9_.-]+ and no leading '.' *)
PlainName(component) ==
  /\ component # <<>>
  /\ \A j \in DOMAIN component : component[j] \in NameChars
  /\ component[1] # "."

(* C26: validateFilePath accepts exactly the paths that are non-empty, at most *)
(* 512 characters, not absolute, free of '..', CR and LF, and whose components *)
(* all are names of [A-Za-z0-9_.-]+ that do not begin with '.': a plan whose   *)
(* one file_path is such a path passes validatePlan, and no other does.        *)
C26_SafePaths ==
  \A p \in Procs :
    Len(orch[p].proposed) = 1 =>
      LET path == orch[p].proposed[1]
      IN (orch[p].error # Err("Error", "Invalid plan"))
           <=> /\ Len(path) > 0 /\ Len(path) <= 512
               /\ path[1] # "/"
               /\ ~IncludesDotDot(path)
               /\ ~Includes(path, "\n") /\ ~Includes(path, "\r")
               /\ \A i \in DOMAIN Split(path) : PlainName(Split(path)[i])

(* every step of the plan was ACCEPTED on its first attempt and the Verifier *)
(* reported a score of at least 0.5                                          *)
CleanRun(p) ==
  /\ orch[p].pc = "done"
  /\ orch[p].planLen >= 1
  /\ \A i, j \in DOMAIN orch[p].file_paths :
       orch[p].file_paths[i] = orch[p].file_paths[j] => i = j
  /\ \A n \in 1..orch[p].planLen :
       \E k \in DOMAIN steps[p] : steps[p][k].step_number = n
  /\ \A k \in DOMAIN steps[p] :
       steps[p][k].attempt = 1 /\ steps[p][k].critic_decision = "ACCEPT"
  /\ orch[p].report.obtained /\ orch[p].report.quality_score >= 50

WorkspaceFiles(p) == {f \in orch[p].disk.files : StartsWith(f, TaskDir \o <<"/">>)}

(* C27: a run of a plan of N steps with distinct file paths in which every step *)
(* is ACCEPTED on attempt 1, no call fails and the Verifier reports at least    *)
(* 0.5 ends COMPLETED with N files in the workspace, N StepRecords and          *)
(* api_call_count = 2N + 2.                                                     *)
C27_CleanRunTotals ==
  \A p \in Procs :
    CleanRun(p) =>
      /\ tasks[p].state = "COMPLETED"
      /\ Cardinality(WorkspaceFiles(p)) = orch[p].planLen
      /\ Len(steps[p]) = orch[p].planLen
      /\ tasks[p].api_call_count = 2 * orch[p].planLen + 2

(* the Critic's REJECTs of a step before a given attempt, as positions in replies *)
RejectsBefore(p, step, attempt) ==
  {i \in DOMAIN orch[p].replies :
     /\ orch[p].replies[i].step = step
     /\ orch[p].replies[i].decision = "REJECT"
     /\ orch[p].replies[i].attempt < attempt}

LastOf(S) == CHOOSE i \in S : \A j \in S : j <= i

(* the Critic's decisions on a step, and the attempts of its StepRecords, in order *)
DecisionsOn(p, step) ==
  LET rs == SelectSeq(orch[p].replies, LAMBDA r : r.step = step)
  IN [i \in 1..Len(rs) |-> rs[i].decision]

AttemptsOf(p, step) ==
  LET rs == SelectSeq(steps[p], LAMBDA r : r.step_number = step)
  IN [k \in 1..Len(rs) |-> rs[k].attempt]

(* C28: the Coder is given no prior issues on attempt 1 of a step and, on a     *)
(* later attempt, exactly the issues of the latest REJECT of that step (none if *)
(* the step has no REJECT yet); a step the Critic answers REJECT, REJECT,       *)
(* ACCEPT has three StepRecords, attempts 1, 2, 3, and is accepted.             *)
C28_PriorIssues ==
  \A p \in Procs :
    /\ \A k \in DOMAIN orch[p].handed :
         LET h == orch[p].handed[k]
             R == RejectsBefore(p, h.step, h.attempt)
         IN /\ h.attempt = 1 => h.issues = Null
            /\ h.attempt > 1 =>
                 h.issues = IF R = {} THEN Null
                            ELSE Given(orch[p].replies[LastOf(R)].issues)
    /\ \A n \in 1..orch[p].planLen :
         DecisionsOn(p, n) = <<"REJECT", "REJECT", "ACCEPT">>
           => /\ AttemptsOf(p, n) = <<1, 2, 3>>
              /\ Accepted(p, n) /\ n \in files[p]

C28_Witness ==
  \E p \in Procs :
    /\ DecisionsOn(p, 1) = <<"REJECT", "REJECT", "ACCEPT">>
    /\ \E k \in DOMAIN orch[p].handed :
         /\ orch[p].handed[k].step = 1 /\ orch[p].handed[k].attempt = 3
         /\ orch[p].handed[k].issues = Given(<<"i2">>)
    /\ \E k \in DOMAIN orch[p].handed :
         /\ orch[p].handed[k].step = 2 /\ orch[p].handed[k].attempt = 1
         /\ orch[p].handed[k].issues = Null

(* the Critic has just answered REJECT *)
Rejected(p) ==
  /\ Len(orch'[p].replies) = Len(orch[p].replies) + 1
  /\ orch'[p].replies[Len(orch'[p].replies)].decision = "REJECT"

(* C29: a REJECT leaves consecutiveFailures as it was; a transient Coder        *)
(* failure, the one event that raises consecutiveFailures, leaves               *)
(* consecutiveCriticRejections as it was; and when a step that follows an       *)
(* accepted step starts, both counters are 0.                                   *)
C29_CountersIndependent ==
  [][\A p \in Procs :
       /\ Rejected(p) => orch'[p].consecutiveFailures = orch[p].consecutiveFailures
       /\ orch'[p].consecutiveFailures > orch[p].consecutiveFailures =>
            /\ orch[p].pc = "coder"
            /\ orch'[p].consecutiveFailures = orch[p].consecutiveFailures + 1
            /\ orch'[p].consecutiveCriticRejections = orch[p].consecutiveCriticRejections
       /\ orch'[p].current_step_index > orch[p].current_step_index =>
            /\ \E k \in DOMAIN steps'[p] :
                 /\ steps'[p][k].step_number = orch[p].current_step_index + 1
                 /\ steps'[p][k].critic_decision = "ACCEPT"
            /\ orch'[p].consecutiveFailures = 0
            /\ orch'[p].consecutiveCriticRejections = 0]_vars

C29_Witness ==
  \E p \in Procs :
    /\ orch[p].pc = "coder" /\ orch[p].current_step_index = 1 /\ orch[p].attempt = 3
    /\ orch[p].consecutiveFailures = 1 /\ orch[p].consecutiveCriticRejections = 1
    /\ DecisionsOn(p, 1) = <<"REJECT", "ACCEPT">>
    /\ Len(SelectSeq(orch[p].handed, LAMBDA h : h.step = 1)) = 3

(* the error the claimed order of checks gives for what held at the loop head *)
FirstCheck(h) ==
  IF h.late THEN Err("LimitExceededError", "Wall-clock timeout")
  ELSE IF h.api_call_count >= MAX_API_CALLS
       THEN Err("LimitExceededError", "API call limit exceeded")
  ELSE IF h.total_tokens >= MAX_TOTAL_TOKENS
       THEN Err("LimitExceededError", "Token limit exceeded")
  ELSE IF h.stop THEN Err("Error", "Emergency stop")
  ELSE IF h.rejections >= 2 * CONSECUTIVE_FAILURE_LIMIT
       THEN Err("CircuitBreakerError",
                "Feedback loop detected. Coder unable to satisfy Critic requirements.")
  ELSE IF h.abort THEN Err("Error", "Abort requested")
  ELSE NoError

(* C30: every attempt starts with the checks in the order budgets, stop file,   *)
(* feedback loop, abort flag: when one of them fails, no agent is invoked, the  *)
(* Task ends FAILED and the error is that of the first failing check in this    *)
(* order (so a present stop file always ends the Task); when none fails, the    *)
(* Coder is invoked next.                                                       *)
C30_ChecksInOrder ==
  [][\A p \in Procs :
       orch'[p].head.n = orch[p].head.n + 1 =>
         LET e == FirstCheck(orch'[p].head)
         IN IF e # NoError
            THEN /\ orch'[p].pc = "done" /\ orch'[p].error = e
                 /\ tasks'[p].state = "FAILED"
                 /\ \A k \in DOMAIN orch'[p].handed :
                      orch'[p].handed[k].step = orch'[p].current_step_index + 1
                        => orch'[p].handed[k].attempt < orch'[p].attempt
            ELSE /\ orch'[p].pc = "coder"
                 /\ orch'[p].handed # <<>>
                 /\ orch'[p].handed[Len(orch'[p].handed)] =
                      [step |-> orch'[p].current_step_index + 1,
                       attempt |-> orch'[p].attempt,
                       issues |-> orch'[p].critic_issues]]_vars

C30_Witness ==
  \E p \in Procs :
    /\ orch[p].head.stop /\ orch[p].head.abort /\ ~orch[p].head.late
    /\ orch[p].error = Err("Error", "Emergency stop")
    /\ tasks[p].state = "FAILED"
    /\ orch[p].handed = <<>>

(* C31: every HTTP request the client issues, retries included, follows an    *)
(* acquire of its own: the requests issued never outnumber the tokens taken   *)
(* from the bucket.                                                           *)
C31_AcquirePerRequest ==
  \A p \in Procs : Len(orch[p].kimi.http) <= orch[p].kimi.rateLimiter.acquires

(* timestamps pushed onto the error-rate window by attempt i of the latest chat *)
PushedBy(k, i) ==
  (IF i < Len(k.attempts) THEN k.attempts[i + 1].errorsBefore ELSE Len(k.errorLog))
    - k.attempts[i].errorsBefore

(* the error attempt a ended in is not transient, or is a 5xx response *)
NonTransientOr5xx(a) ==
  /\ a.issued /\ a.kind = "response"
  /\ ~(a.status >= 200 /\ a.status < 300)
  /\ (a.status >= 500 \/ ~(a.status = 429 \/ (a.status >= 500 /\ a.status < 600)))

(* C32: an attempt adds a timestamp to the error-rate window if and only if it *)
(* ended in an error that is non-transient or a 5xx response; a 429 adds none. *)
C32_WindowCountsHardErrors ==
  \A p \in Procs : \A i \in DOMAIN orch[p].kimi.attempts :
    LET k == orch[p].kimi
        a == k.attempts[i]
    IN /\ PushedBy(k, i) = (IF NonTransientOr5xx(a) THEN 1 ELSE 0)
       /\ (a.kind = "response" /\ a.status = 429) => PushedBy(k, i) = 0

(* the latest chat's first attempt ended in a timeout *)
FirstTimedOut(k) ==
  Len(k.attempts) >= 1 /\ k.attempts[1].issued /\ k.attempts[1].kind = "abort"

(* C33: every HTTP attempt has a deadline of its own: the retry that follows a *)
(* timed-out first attempt is issued with TIMEOUT_MS ahead of it, so its signal *)
(* is not yet aborted when it is issued.                                        *)
C33_RetryHasOwnDeadline ==
  \A p \in Procs :
    LET k == orch[p].kimi
    IN (FirstTimedOut(k) /\ Len(k.attempts) >= 2 /\ k.attempts[2].issued)
         => k.attempts[2].at < k.deadline

(* the absolute path the latest writeFile call made on its own was aimed at *)
DestOf(p) == sanitizeFilePath(TaskDir, orch[p].wrote.filePath)

(* C34: a writeFile aimed at a path that already holds a file replaces it by  *)
(* one rename: whether the call returns or fails at any of its steps, a file  *)
(* is at the destination afterwards.                                          *)
C34_DestinationNeverMissing ==
  \A p \in Procs :
    (orch[p].wrote.n > 0 /\ DestOf(p).ok /\ DestOf(p).path \in orch[p].wrote.before.files)
      => DestOf(p).path \in orch[p].disk.files

(* the agent invocations of p that have settled: all but the one in flight *)
SettledCalls(p) ==
  IF orch[p].pc \in AwaitPcs
  THEN SubSeq(orch[p].invoked, 1, Len(orch[p].invoked) - 1)
  ELSE orch[p].invoked

(* C35: api_call_count is the number of agent invocations the orchestrator has *)
(* made and that have settled, failed ones included, and the APICallRecords    *)
(* are those invocations' agents in the order of the calls.                    *)
C35_EveryCallCounted ==
  \A p \in Procs :
    /\ tasks[p].api_call_count = Len(SettledCalls(p))
    /\ api_calls[p].agents = [i \in 1..Len(SettledCalls(p)) |-> SettledCalls(p)[i].agent]

(* the latest chat of p's client, made for agent, failed with error *)
ChatFailed(p, agent) ==
  orch[p].kimi.agent = agent /\ orch[p].kimi.result # NoClientError

(* C36: a Task that ends on a fatal agent failure is FAILED and executeTask    *)
(* rejects with the original typed error: the client's error for a failed      *)
(* Planner call or a non-transient Coder failure (exit code 2), a              *)
(* ValidationError for a plan that fails validation (exit code 1).             *)
C36_FatalErrorKeepsKind ==
  \A p \in Procs :
    orch[p].pc = "done" =>
      /\ (ChatFailed(p, "planner")
            \/ (ChatFailed(p, "coder") /\ ~isTransientError(orch[p].kimi.result)))
           => /\ tasks[p].state = "FAILED"
              /\ orch[p].error.kind = orch[p].kimi.result.kind
              /\ getExitCodeForError(orch[p].error) = ExitCode.ApiOrTimeoutError
      /\ (orch[p].proposed # <<>> /\ \E i \in DOMAIN orch[p].proposed :
                                       ~validateFilePath(orch[p].proposed[i]))
           => /\ tasks[p].state = "FAILED"
              /\ orch[p].error.kind = "ValidationError"
              /\ getExitCodeForError(orch[p].error) = ExitCode.ValidationError

(* C37: the bucket always holds between 0 and burst tokens, and among the     *)
(* acquire calls that returned, any run of n of them spans a time T with      *)
(* n <= burst + tokensPerInterval * T / intervalMs.                           *)
C37_BucketBounds ==
  \A p \in Procs :
    LET rl == orch[p].kimi.rateLimiter
    IN /\ rl.tokens >= 0 /\ rl.tokens <= rl.burst * UnitsPerToken(rl)
       /\ \A i, j \in DOMAIN rl.returned :
            i <= j => (j - i + 1 - rl.burst) * rl.intervalMs
                        <= rl.tokensPerInterval * (rl.returned[j] - rl.returned[i])

(* the production limiter served its burst at once and a fourth call one *)
(* refill period later, with the bucket empty again                      *)
C37_Witness ==
  \E p \in Procs :
    LET rl == orch[p].kimi.rateLimiter
    IN /\ rl.burst = BURST /\ Len(rl.returned) = BURST + 1
       /\ rl.returned[1] = rl.returned[BURST]
       /\ (rl.returned[BURST + 1] - rl.returned[1]) * rl.tokensPerInterval = rl.intervalMs
       /\ rl.sleeps # <<>>

(* C38: a Task whose row is in a terminal state has an end_time, and a Task *)
(* in any other state has none.                                             *)
C38_EndTimeIffTerminal ==
  \A p \in Procs :
    (tasks[p].state \in TerminalStates) <=> (tasks[p].end_time # "null")

(* C39: every call of executeTask starts with consecutive_failures = 0,       *)
(* consecutive_critic_rejections = 0 and abort_requested = false, whatever    *)
(* happened during an earlier call on the same Orchestrator.                  *)
C39_FreshCounters ==
  \A p \in Procs :
    orch[p].pc = "idle" =>
      /\ orch[p].consecutiveFailures = 0
      /\ orch[p].consecutiveCriticRejections = 0
      /\ ~orch[p].abortRequested

(* the StepRecord most recently written with decision ACCEPT for a step whose *)
(* file_path is the given one, as a position in steps; 0 if there is none     *)
LastAccept(p, filePath) ==
  LET ks == {k \in DOMAIN steps[p] :
               /\ steps[p][k].critic_decision = "ACCEPT"
               /\ orch[p].file_paths[steps[p][k].step_number] = filePath}
  IN IF ks = {} THEN 0 ELSE CHOOSE k \in ks : \A h \in ks : h <= k

(* C40: when a Task is COMPLETED, for every step of its plan the workspace holds *)
(* a file at the step's file_path, its content is the coder_output of the ACCEPT *)
(* StepRecord most recently written for that path, and getAllFiles returns the   *)
(* path; plans with a shared file_path or with a path plus '.tmp' included.      *)
C40_CompletedTreeMatchesPlan ==
  \A p \in Procs :
    (orch[p].pc = "done" /\ tasks[p].state = "COMPLETED") =>
      \A n \in 1..orch[p].planLen :
        LET filePath == orch[p].file_paths[n]
            fullPath == sanitizeFilePath(TaskDir, filePath).path
            k == LastAccept(p, filePath)
        IN /\ fullPath \in orch[p].disk.files
           /\ k # 0
           /\ [path |-> fullPath,
               output |-> [step |-> steps[p][k].step_number,
                           attempt |-> steps[p][k].attempt]] \in orch[p].content
           /\ SubSeq(fullPath, Len(TaskDir) + 2, Len(fullPath))
                \in getAllFiles(orch[p].disk)

====
